---- MODULE Spec2Model ----
(***************************************************************************)
(* Model of processgpt_agent_utils.                                        *)
(*                                                                         *)
(* Human Query Channel (tools/human_query_tool.py): HumanQueryTool._run    *)
(* and HumanQueryTool._wait_for_response, run by several calls that share  *)
(* one events table.  A call is one invocation of _run; calls interleave   *)
(* at the points where _run touches the table (history fetch, event        *)
(* append, notification append, response lookup).                          *)
(***************************************************************************)
EXTENDS Integers, Sequences, FiniteSets, TLC

\* ------------------------------------------------------------------ bounds
\* Number of workers whose calls of _run overlap (Spec).
NumWorkers == 2
\* Number of calls of _run the worker of SpecSeq makes one after the other;
\* a later call is a retry of an earlier one when it has the same
\* arguments.
MaxCalls == 3
\* Number of human_response events the answering side appends.
MaxResponses == 2
\* Duration of a slow response lookup, in seconds.
SlowLookup == 55
\* Duration of a quick response lookup, in seconds.
FastLookup == 25
\* Number of calls of _run the worker of SpecPoll makes.
MaxPollCalls == 1
\* Number of lookup outcomes SpecPoll keeps of a poll loop.
MaxObserved == 5

\* ------------------------------------------------------- program constants
\* _wait_for_response(timeout_sec=180, poll_interval_sec=5); error_count >= 3
TimeoutSec == 180
PollIntervalSec == 5
MaxConsecutiveErrors == 3

Workers == 1..NumWorkers

\* Python None for a string-valued field.
None == "None"
\* No job id (a falsy job_id).
NoJob == 0
\* The text returned on timeout (line 247, an ASCII stand-in for the Korean text).
RejectionSentinel == "user-no-response-rejected"

Min(a, b) == IF a < b THEN a ELSE b

\* ----------------------------------------------------------------- inputs
\* The options argument: None or a list of strings.
NoOptions == [is_none |-> TRUE, items |-> <<>>]
ListOptions(items) == [is_none |-> FALSE, items |-> items]

\* The (role, text, type, options) arguments the calls are made with.
Questions ==
    { [role |-> "user", text |-> "q1", type |-> "text", options |-> NoOptions],
      [role |-> "user", text |-> "q1", type |-> "text", options |-> ListOptions(<<>>)],
      [role |-> "user", text |-> "q2", type |-> "select",
       options |-> ListOptions(<<"dev", "prod">>)] }

\* self._task_id of the tool instance a call runs on: the calls of one
\* conversation.
TaskIds == {"t1"}

\* self._user_ids_csv of the tool instance.
UserIdsCsv == {None, "", "  ", "u1,u2"}

\* data of the human_response events: a string answer, or a structured one
\* (answer holds the JSON text of the non-string value).
ResponseData ==
    { [answer |-> "yes", is_str |-> TRUE],
      [answer |-> "{\"choice\": 2}", is_str |-> FALSE] }

\* Seconds a response lookup takes.
FastLookups == {FastLookup}
SlowLookups == {SlowLookup, TimeoutSec}
\* Seconds between computing the deadline and the first test of the clock.
EntryDelays == {0, TimeoutSec}

\* ------------------------------------------------------------------- state
VARIABLES
    events,         \* the events table, in insertion order
    notifications,  \* the saved notifications, in insertion order
    responses,      \* number of human_response events appended so far
    started,        \* number of calls of _run begun so far
    call,           \* per worker, its current (or last) call of _run: the
                    \* locals and what the call has done
    observed,       \* the outcomes of the latest lookups of the current poll
                    \* loop (kept by SpecPoll only)
    adapters,       \* SafeToolLoader.adapters: the registry of open connection
                    \* handles, in registration order (handle ids)
    handles,        \* every MCPServerAdapter constructed so far, by handle id
    prov,           \* the current (or last) call of create_tools_from_names
    shut,           \* the current (or last) call of shutdown_all_adapters
    loop,           \* the event loop of the thread that calls
                    \* create_tools_from_names, if that thread runs one
    eval,           \* the current evaluation of a function of the program
                    \* on an input: the function, the input, the result
    listener,       \* the current (or last) call of CrewAIEventLogger.on_event
    bus,            \* the event bus of the process and the class attribute
                    \* CrewConfigManager._registered
    vecs            \* one vecs collection: its index, its advisory lock and
                    \* the calls of the patched create_index on it

hqVars == <<events, notifications, responses, started, call, observed>>
loaderVars == <<adapters, handles, prov, shut, loop>>
auxVars == <<eval, listener, bus, vecs>>
vars == <<events, notifications, responses, started, call, observed,
          adapters, handles, prov, shut, loop, eval, listener, bus, vecs>>

\* ------------------------------------------------------- pure functions
\* Line 123 without "or []": the options go into the payload as given.
OptionsAsGiven(options) == options

\* normalized_options = options or []
NormalizeOptions(options) ==
    IF options.is_none \/ options.items = <<>> THEN <<>> ELSE options.items

\* _make_signature: sha256 of the JSON text of the payload with sorted keys.
\* The digest is taken as injective on the JSON text, and the JSON text with
\* sorted keys as injective on the four values: the signature is modelled by
\* the record of the four values (a record has no key order).
MakeSignature(role, text, type, options) ==
    [options |-> options, role |-> role, text |-> text, type |-> type]

\* json.dumps(data, ensure_ascii=False) of a response's data.
JsonDumps(data) == "{\"answer\": " \o data.answer \o "}"

\* ReusedAnswer without the test of line 154: every stored response is
\* returned as the JSON text of its data.
ReusedAnswerDumped(resp_data) == JsonDumps(resp_data)

\* Lines 152-158: answer = resp_data.get("answer"); a str is returned as is,
\* anything else as the JSON text of resp_data.
ReusedAnswer(resp_data) ==
    IF resp_data.is_str THEN resp_data.answer ELSE JsonDumps(resp_data)

\* Lines 229-234: the same for the event found by polling.
PolledAnswer(data) ==
    IF data.is_str THEN data.answer ELSE JsonDumps(data)

\* ------------------------------------------------- the event log client
\* utils/database.py is not part of the sources: the four operations are
\* modelled from the interface of the Event Log Client (an append-only table
\* in insertion order).

\* fetch_events_by_todo_id(todo_id): the conversation's events, oldest first.
RECURSIVE FetchEventsByTodoId(_, _)
FetchEventsByTodoId(table, todo_id) ==
    IF table = <<>> THEN <<>>
    ELSE LET rest == FetchEventsByTodoId(SubSeq(table, 1, Len(table) - 1), todo_id)
             last == table[Len(table)]
         IN IF last.todo_id = todo_id THEN Append(rest, last) ELSE rest

\* fetch_human_response_sync(job_id): the position in the table of the latest
\* human_response event of the job, 0 when there is none.
RECURSIVE FindLatestResponse(_, _, _)
FindLatestResponse(table, job_id, i) ==
    IF i = 0 THEN 0
    ELSE IF table[i].event_type = "human_response" /\ table[i].job_id = job_id THEN i
    ELSE FindLatestResponse(table, job_id, i - 1)

FetchHumanResponse(table, job_id) == FindLatestResponse(table, job_id, Len(table))

\* save_event_sync(...): one record appended.
SaveEventSync(table, job_id, todo_id, data, event_type) ==
    Append(table, [event_type |-> event_type, job_id |-> job_id,
                   todo_id |-> todo_id, data |-> data])

\* save_notification_sync(...): one record appended.
SaveNotificationSync(saved, title, user_ids_csv, url) ==
    Append(saved, [title |-> title, user_ids_csv |-> user_ids_csv, url |-> url])

\* ------------------------------------------------------- the dedup scan
\* FindResponse scanning oldest first: reversed() left out at line 146.
RECURSIVE FindOldestResponse(_, _, _)
FindOldestResponse(existing_events, prev_job_id, i) ==
    IF i = 0 THEN 0
    ELSE LET older == FindOldestResponse(existing_events, prev_job_id, i - 1)
         IN IF older # 0 THEN older
            ELSE IF existing_events[i].event_type # "human_response" THEN 0
            ELSE IF existing_events[i].job_id # prev_job_id THEN 0
            ELSE i

\* Lines 146-150: for resp in reversed(existing_events), the first
\* human_response event whose job_id is prev_job_id; 0 when the loop ends.
RECURSIVE FindResponse(_, _, _)
FindResponse(existing_events, prev_job_id, i) ==
    IF i = 0 THEN 0
    ELSE IF existing_events[i].event_type # "human_response"
         THEN FindResponse(existing_events, prev_job_id, i - 1)
    ELSE IF existing_events[i].job_id # prev_job_id
         THEN FindResponse(existing_events, prev_job_id, i - 1)
    ELSE i

\* SameQuestion without the comparison of line 140: any earlier question
\* counts as this one.
AnyQuestion(data, signature) == TRUE

\* Line 140: data.get("signature") == signature
SameQuestion(data, signature) == data.signature = signature

\* Unanswered going on to line 166 instead of waiting on the existing job.
UnansweredAskedAgain(prev_job_id) ==
    [kind |-> "new", job_id |-> NoJob, answer |-> None]

\* Lines 160-162: the inner loop ended without a return; the call waits on
\* the existing job.
Unanswered(prev_job_id) ==
    [kind |-> "join", job_id |-> prev_job_id, answer |-> None]

\* Lines 136-162: for event in reversed(existing_events).  The result says
\* how _run goes on: "reuse" (return the stored answer), "join" (wait on the
\* existing job) or "new" (the loop ended without a return).
RECURSIVE ScanHistory(_, _, _)
ScanHistory(existing_events, signature, i) ==
    IF i = 0 THEN [kind |-> "new", job_id |-> NoJob, answer |-> None]
    ELSE LET event == existing_events[i] IN
         IF event.event_type # "human_asked"
         THEN ScanHistory(existing_events, signature, i - 1)
         ELSE IF ~SameQuestion(event.data, signature)
         THEN ScanHistory(existing_events, signature, i - 1)
         ELSE IF event.job_id = NoJob
         THEN ScanHistory(existing_events, signature, i - 1)
         ELSE LET r == FindResponse(existing_events, event.job_id,
                                    Len(existing_events))
              IN IF r # 0
                 THEN [kind |-> "reuse", job_id |-> event.job_id,
                       answer |-> ReusedAnswer(existing_events[r].data)]
                 ELSE Unanswered(event.job_id)

\* ------------------------------------------------------------------- Init
NoSignature == MakeSignature("", "", "", <<>>)

\* A call that has not begun.  pc is the place in _run; signature, task_id,
\* job_id, now, error_count and result are its locals (now is the clock at
\* the next test of the loop condition, counted from the moment the deadline
\* was computed and capped at the deadline).  The other fields record what
\* the call has done: the number of events it fetched (hist; the table is
\* append-only, so they are the first hist events of the conversation), how
\* the scan ended (scan) and on which job (scan_job), the human_asked events and the
\* notifications it saved, the jobs it looked up, whether a poll loop of it
\* has aborted, how it returned (outcome), which failure a handler of it
\* caught and logged (error), the workers whose calls had ended when it
\* began (prior), and whether its history fetch failed (fetch).
IdleCall ==
    [pc |-> "idle", signature |-> NoSignature, task_id |-> None,
     job_id |-> NoJob, joined |-> FALSE, now |-> 0, error_count |-> 0,
     result |-> None, hist |-> 0, scan |-> "none", scan_job |-> NoJob,
     appended |-> 0, notified |-> 0, polled |-> {}, aborted |-> FALSE,
     outcome |-> "none", error |-> "none", prior |-> {}, fetch |-> "none"]

\* ---------------------------------------------- SafeToolLoader: the state
\* A call of create_tools_from_names: the loader instance it runs on
\* (instance, tenant_id, user_id, agent_name), its arguments (tool_names,
\* agent_type), its locals (tools; i, the position of the MCP loop in
\* tool_names; key; attempt; candidates and loaded of _load_a2a_tools, and
\* whether a creation of _create_all raised: create_failed; how the
\* warmup of the current name went: warmup)
\* and what the current _load_mcp_tool has done: attempts begun, attempts
\* failed, seconds slept, the registry at its entry (before) and why the
\* call raised (error).
IdleProvision ==
    [pc |-> "idle", instance |-> 0, tenant_id |-> None, user_id |-> None,
     agent_name |-> None, tool_names |-> <<>>, agent_type |-> None,
     tools |-> <<>>, i |-> 0, key |-> None, attempt |-> 0, attempts |-> 0,
     failures |-> 0, slept |-> 0, before |-> <<>>, candidates |-> <<>>,
     loaded |-> <<>>, create_failed |-> FALSE, failed_at |-> {},
     warmup |-> "none",
     error |-> "none"]

\* A call of shutdown_all_adapters: the number of the call, i of enumerate,
\* the registry at entry (start), the handles whose stop() returned in this
\* call, in order (closed), and whether a stop() raised (error).
IdleShutdown ==
    [pc |-> "idle", number |-> 0, i |-> 0, start |-> <<>>, closed |-> <<>>,
     error |-> "none"]

\* No function is being evaluated.
NoEval == [fn |-> "none"]

\* An orchestration event: its type attribute (None: no string type), the
\* name of its class, the id of its task (None: no task) and, for a
\* completed task, what its output parses to.
OrchestrationEvent(type, class, task_id, output) ==
    [type |-> type, class |-> class, task_id |-> task_id, output |-> output]
NoEvent == OrchestrationEvent(None, None, None, None)

\* A call of on_event: the number of the call, the event, whether
\* initialize_db and save_event_sync succeed in it, the event type
\* extracted, the calls of initialize_db and of save_event_sync it made, the
\* length of the events table at entry, how it ended (pc) and why it
\* raised (error).  crew_type is the context variable of that name.
IdleListener ==
    [pc |-> "idle", number |-> 0, event |-> NoEvent, init_ok |-> TRUE,
     save_ok |-> TRUE, event_type |-> None, inits |-> 0, saves |-> 0,
     table |-> 0, crew_type |-> "planning", error |-> "none"]

\* The four event classes CrewConfigManager registers a listener for, in
\* the order of the loop of line 262.
ListenedEvents ==
    <<"TaskStartedEvent", "TaskCompletedEvent", "ToolUsageStartedEvent",
      "ToolUsageFinishedEvent">>

\* The process before any CrewConfigManager is built: _registered is
\* False and the bus has no listener; constructions counts the calls of
\* __init__, raised says whether the last one raised, emitted is the class
\* of the last event emitted on the bus and calls the number of on_event
\* calls it caused.
IdleBus ==
    [registered |-> FALSE, listeners |-> [n \in 1..4 |-> 0],
     constructions |-> 0, raised |-> FALSE, emitted |-> None, calls |-> 0]

\* The workers that call create_index on the collection.
NumIndexWorkers == 2
IndexWorkers == 1..NumIndexWorkers

\* A worker that has not called the patched create_index: pc is the place
\* of its current call, replace the keyword the original would get,
\* acquired whether the call got the lock, outcome how the call ended,
\* calls the calls the worker has made.
IdleIndexCall ==
    [pc |-> "idle", replace |-> FALSE, acquired |-> FALSE, outcome |-> "none",
     calls |-> 0]

\* The collection: whether it has an index, the worker that holds its
\* advisory lock (0: free), the calls of the original create_index made,
\* those that built the index and those that raised, the times an index
\* was dropped, and the workers' calls.
IdleVecs ==
    [index |-> FALSE, lock |-> 0, invocations |-> 0, created |-> 0,
     failures |-> 0, drops |-> 0,
     worker |-> [w \in IndexWorkers |-> IdleIndexCall]]

\* No event loop in the calling thread.
NoLoop == [running |-> FALSE, current |-> None, queue |-> <<>>]

Init ==
    /\ events = <<>>
    /\ notifications = <<>>
    /\ responses = 0
    /\ started = 0
    /\ call = [c \in Workers |-> IdleCall]
    /\ observed = <<>>
    /\ adapters = <<>>
    /\ handles = <<>>
    /\ prov = IdleProvision
    /\ shut = IdleShutdown
    /\ loop = NoLoop
    /\ eval = NoEval
    /\ listener = IdleListener
    /\ bus = IdleBus
    /\ vecs = IdleVecs

\* ---------------------------------------------------------------- actions
\* _wait_for_response, lines 221-223: deadline = time.time() + timeout_sec,
\* error_count = 0; `delay` seconds pass before the first test of the clock.
EnterWait(me, job_id, delay) ==
    [me EXCEPT !.pc = "poll", !.job_id = job_id, !.now = Min(delay, TimeoutSec),
               !.error_count = 0]

\* HistoryFetchFailed with the failure raised to the caller.
HistoryFetchFailureRaised(me) ==
    [me EXCEPT !.fetch = "failed", !.pc = "raised", !.error = "fetch"]

\* Lines 130-131: the failure of fetch_events_by_todo_id is logged;
\* existing_events stays [].
HistoryFetchFailed(me) == [me EXCEPT !.fetch = "failed"]

\* _run, lines 116-164: signature, history fetch and dedup scan.  The scan
\* reads only the fetched list, so fetch and scan are one step.  Worker c
\* begins a call when it runs none; the workers are numbered in the order of
\* their first calls.
Ask(c, q, task_id, fetch_ok, delay) ==
    /\ call[c].pc \in {"idle", "returned", "raised"}
    /\ IF c = 1 THEN TRUE ELSE call[c - 1].pc # "idle"
    /\ started' = started + 1
    /\ LET normalized_options == NormalizeOptions(q.options)
           signature == MakeSignature(q.role, q.text, q.type, normalized_options)
           existing_events ==
               IF task_id # None /\ fetch_ok
               THEN FetchEventsByTodoId(events, task_id) ELSE <<>>
           found == ScanHistory(existing_events, signature, Len(existing_events))
           fetched == IF task_id # None /\ ~fetch_ok
                      THEN HistoryFetchFailed(IdleCall) ELSE IdleCall
           begun == [fetched EXCEPT !.signature = signature, !.task_id = task_id,
                                    !.hist = Len(existing_events),
                                    !.scan = found.kind,
                                    !.scan_job = found.job_id,
                                    !.prior = {b \in Workers \ {c} :
                                        call[b].pc \in {"returned", "raised"}}]
       IN call' = [call EXCEPT ![c] =
               CASE fetched.pc = "raised" -> begun
                 [] found.kind = "reuse" ->
                        [begun EXCEPT !.pc = "returned", !.result = found.answer,
                                      !.outcome = "reused"]
                 [] found.kind = "join" ->
                        [EnterWait(begun, found.job_id, delay) EXCEPT !.joined = TRUE]
                 [] OTHER -> [begun EXCEPT !.pc = "save_event"]]
    /\ UNCHANGED <<events, notifications, responses>>

\* job_id = f"human_asked_{uuid.uuid4()}": a job id no event of the table
\* carries.  The job is named after the place its human_asked event takes.
NewJobId(table) == Len(table) + 1

\* SaveEventFailed without the raise of line 191: the failure is logged and
\* _run goes on.
SaveEventFailureSwallowed(me) == [me EXCEPT !.pc = "notify", !.error = "append"]

\* Lines 189-191: the failure of save_event_sync is logged and raised again.
SaveEventFailed(me) == [me EXCEPT !.pc = "raised", !.error = "append"]

\* _run, lines 166-191: payload, a fresh job id, the human_asked event.
SaveEvent(c, ok) ==
    /\ call[c].pc = "save_event"
    /\ LET job_id == NewJobId(events)
           signature == call[c].signature
           payload == [role |-> signature.role, text |-> signature.text,
                       type |-> signature.type, options |-> signature.options,
                       signature |-> signature]
       IN IF ok
          THEN /\ events' = SaveEventSync(events, job_id, call[c].task_id,
                                          payload, "human_asked")
               /\ call' = [call EXCEPT ![c].pc = "notify", ![c].job_id = job_id,
                                       ![c].joined = FALSE, ![c].appended = @ + 1]
          ELSE /\ events' = events
               /\ call' = [call EXCEPT ![c] =
                      SaveEventFailed([call[c] EXCEPT !.job_id = job_id,
                                                      !.joined = FALSE])]
    /\ UNCHANGED <<notifications, responses, started>>

\* str.strip() on the recipient lists of UserIdsCsv.
Strip(s) == IF s = "  " THEN "" ELSE s

\* self._user_ids_csv and self._user_ids_csv.strip()
HasRecipients(user_ids_csv) ==
    user_ids_csv # None /\ user_ids_csv # "" /\ Strip(user_ids_csv) # ""

\* SaveNotificationFailed without the raise of line 210: the failure is
\* logged and _run goes on to wait for the response.
SaveNotificationFailureSwallowed(me, delay) ==
    [EnterWait(me, me.job_id, delay) EXCEPT !.error = "notify"]

\* Lines 208-210: the failure of save_notification_sync is logged and raised
\* again.
SaveNotificationFailed(me, delay) == [me EXCEPT !.pc = "raised", !.error = "notify"]

\* _run, lines 193-216: the notification, when recipients are configured,
\* then the wait for the response.
SaveNotification(c, user_ids_csv, ok, delay) ==
    /\ call[c].pc = "notify"
    /\ IF HasRecipients(user_ids_csv)
       THEN IF ok
            THEN /\ notifications' =
                        SaveNotificationSync(notifications, call[c].signature.text,
                                             user_ids_csv, call[c].task_id)
                 /\ call' = [call EXCEPT ![c] =
                        EnterWait([call[c] EXCEPT !.notified = @ + 1],
                                  call[c].job_id, delay)]
            ELSE /\ notifications' = notifications
                 /\ call' = [call EXCEPT ![c] = SaveNotificationFailed(call[c], delay)]
       ELSE /\ notifications' = notifications
            /\ call' = [call EXCEPT ![c] = EnterWait(call[c], call[c].job_id, delay)]
    /\ UNCHANGED <<events, responses, started>>

\* The locals of _wait_for_response end with it.
Left(me) == [me EXCEPT !.now = 0, !.error_count = 0]

\* LoopCondition with <= for <.
LoopConditionInclusive(me) == me.now <= TimeoutSec

\* Line 225: time.time() < deadline
LoopCondition(me) == me.now < TimeoutSec

\* _wait_for_response, lines 225 and 246-247: the loop condition fails, the
\* sentinel is returned.
PollTimeout(c) ==
    /\ call[c].pc = "poll"
    /\ ~LoopCondition(call[c])
    /\ call' = [call EXCEPT ![c] =
               [Left(call[c]) EXCEPT !.pc = "returned", !.result = RejectionSentinel,
                                     !.outcome = "timeout"]]
    /\ UNCHANGED <<events, notifications, responses, started>>

\* EmptyLookup without the reset of line 235.
EmptyLookupNoReset(looked, slept) == [looked EXCEPT !.now = slept]

\* Lines 235 and 244: no response yet; error_count = 0, then the sleep.
EmptyLookup(looked, slept) == [looked EXCEPT !.error_count = 0, !.now = slept]

\* PollingAborted where every call goes on at line 166 after the abort.
PollingAbortedAskedAgain(looked) ==
    [Left(looked) EXCEPT !.aborted = TRUE, !.pc = "save_event"]

\* Lines 239-241: the RuntimeError.  Raised while the call waits on a job it
\* joined (line 162), it is raised inside the try of lines 134-164, whose
\* handler (lines 163-164) logs it and lets _run go on at line 166; raised
\* at line 214 it leaves _run.
PollingAborted(looked) ==
    IF looked.joined
    THEN [Left(looked) EXCEPT !.aborted = TRUE, !.pc = "save_event"]
    ELSE [Left(looked) EXCEPT !.aborted = TRUE, !.pc = "raised", !.error = "polling"]

\* _wait_for_response, lines 225-244: the loop condition holds; one lookup
\* (taking `took` seconds) and, unless it ends the loop, the sleep.
PollLookup(c, lookup_ok, took) ==
    /\ call[c].pc = "poll"
    /\ LoopCondition(call[c])
    /\ LET me == call[c]
           slept == Min(me.now + took + PollIntervalSec, TimeoutSec)
           looked == [me EXCEPT !.polled = @ \cup {me.job_id}]
           found == FetchHumanResponse(events, me.job_id)
           error_count == me.error_count + 1
       IN call' = [call EXCEPT ![c] =
               IF lookup_ok
               THEN IF found # 0
                    THEN [Left(looked) EXCEPT !.pc = "returned",
                                !.result = PolledAnswer(events[found].data),
                                !.outcome = "answer"]
                    ELSE EmptyLookup(looked, slept)
               ELSE IF error_count >= MaxConsecutiveErrors
               THEN PollingAborted(looked)
               ELSE [looked EXCEPT !.error_count = error_count, !.now = slept]]
    /\ UNCHANGED <<events, notifications, responses, started>>

\* The answering side (outside the sources): a human_response event for a
\* job that has been asked.
HumanRespond(i, data) ==
    /\ responses < MaxResponses
    /\ i \in 1..Len(events)
    /\ events[i].event_type = "human_asked"
    /\ events' = SaveEventSync(events, events[i].job_id, events[i].todo_id,
                               data, "human_response")
    /\ responses' = responses + 1
    /\ UNCHANGED <<notifications, started, call>>

\* ---------------------------------------------------------- specification
\* The lookup outcomes SpecPoll keeps: the last MaxObserved of the loop.
Remember(seen, what) ==
    IF Len(seen) < MaxObserved THEN Append(seen, what)
    ELSE Append(Tail(seen), what)

\* Spec: every worker makes one call and the calls overlap in any way; a
\* lookup is slow.
Next ==
    \/ \E c \in Workers, q \in Questions, task_id \in TaskIds, fetch_ok \in BOOLEAN,
          delay \in EntryDelays :
           /\ call[c].pc = "idle"
           /\ Ask(c, q, task_id, fetch_ok, delay)
           /\ UNCHANGED <<observed, loaderVars, auxVars>>
    \/ \E c \in Workers, ok \in BOOLEAN : SaveEvent(c, ok) /\ UNCHANGED <<observed, loaderVars, auxVars>>
    \/ \E c \in Workers, user_ids_csv \in UserIdsCsv, ok \in BOOLEAN,
          delay \in EntryDelays :
           SaveNotification(c, user_ids_csv, ok, delay) /\ UNCHANGED <<observed, loaderVars, auxVars>>
    \/ \E c \in Workers : PollTimeout(c) /\ UNCHANGED <<observed, loaderVars, auxVars>>
    \/ \E c \in Workers, lookup_ok \in BOOLEAN, took \in SlowLookups :
           PollLookup(c, lookup_ok, took) /\ UNCHANGED <<observed, loaderVars, auxVars>>
    \/ \E i \in 1..(NumWorkers + MaxResponses), data \in ResponseData :
           HumanRespond(i, data) /\ UNCHANGED <<observed, loaderVars, auxVars>>

Spec == Init /\ [][Next]_vars

\* SpecSeq: one worker makes MaxCalls calls one after the other; a lookup is
\* slow.
NextSeq ==
    \/ \E q \in Questions, task_id \in TaskIds, fetch_ok \in BOOLEAN,
          delay \in EntryDelays :
           /\ started < MaxCalls
           /\ Ask(1, q, task_id, fetch_ok, delay)
           /\ UNCHANGED <<observed, loaderVars, auxVars>>
    \/ \E ok \in BOOLEAN : SaveEvent(1, ok) /\ UNCHANGED <<observed, loaderVars, auxVars>>
    \/ \E user_ids_csv \in UserIdsCsv, ok \in BOOLEAN, delay \in EntryDelays :
           SaveNotification(1, user_ids_csv, ok, delay) /\ UNCHANGED <<observed, loaderVars, auxVars>>
    \/ PollTimeout(1) /\ UNCHANGED <<observed, loaderVars, auxVars>>
    \/ \E lookup_ok \in BOOLEAN, took \in SlowLookups :
           PollLookup(1, lookup_ok, took) /\ UNCHANGED <<observed, loaderVars, auxVars>>
    \/ \E i \in 1..(MaxCalls + MaxResponses), data \in ResponseData :
           HumanRespond(i, data) /\ UNCHANGED <<observed, loaderVars, auxVars>>

SpecSeq == Init /\ [][NextSeq]_vars

\* SpecPoll: one worker makes MaxPollCalls calls one after the other; a
\* lookup is quick or takes the whole wait; the outcomes of the lookups of
\* the current poll loop are observed (the loop begins where
\* _wait_for_response is entered).
NextPoll ==
    \/ \E q \in Questions, task_id \in TaskIds, fetch_ok \in BOOLEAN,
          delay \in EntryDelays :
           /\ started < MaxPollCalls
           /\ Ask(1, q, task_id, fetch_ok, delay)
           /\ observed' = <<>>
           /\ UNCHANGED <<loaderVars, auxVars>>
    \/ \E ok \in BOOLEAN : SaveEvent(1, ok) /\ UNCHANGED <<observed, loaderVars, auxVars>>
    \/ \E user_ids_csv \in UserIdsCsv, ok \in BOOLEAN, delay \in EntryDelays :
           /\ SaveNotification(1, user_ids_csv, ok, delay)
           /\ observed' = <<>>
           /\ UNCHANGED <<loaderVars, auxVars>>
    \/ PollTimeout(1) /\ UNCHANGED <<observed, loaderVars, auxVars>>
    \/ \E lookup_ok \in BOOLEAN, took \in FastLookups \cup {TimeoutSec} :
           /\ PollLookup(1, lookup_ok, took)
           /\ observed' = Remember(observed, IF lookup_ok THEN "ok" ELSE "error")
           /\ UNCHANGED <<loaderVars, auxVars>>
    \/ \E i \in 1..(MaxPollCalls + MaxResponses), data \in ResponseData :
           HumanRespond(i, data) /\ UNCHANGED <<observed, loaderVars, auxVars>>

SpecPoll == Init /\ [][NextPoll]_vars

\* ------------------------------------------------------------ properties
IsAsked(e, signature) ==
    e.event_type = "human_asked" /\ e.data.signature = signature

IsResponseTo(e, job_id) ==
    e.event_type = "human_response" /\ e.job_id = job_id

\* The text _run returns for a response with this data.
AnswerText(data) == IF data.is_str THEN data.answer ELSE JsonDumps(data)

\* The call of worker c has returned and has saved nothing and looked
\* nothing up.
Immediate(c) ==
    /\ call[c].pc = "returned"
    /\ call[c].appended = 0
    /\ call[c].notified = 0
    /\ call[c].polled = {}

\* Among the events worker c fetched (the first call[c].hist events of the
\* table), event i is the newest human_asked event with the call's signature
\* and a job id.
NewestAsked(c, i) ==
    /\ i \in 1..call[c].hist
    /\ IsAsked(events[i], call[c].signature)
    /\ events[i].job_id # NoJob
    /\ \A j \in (i + 1)..call[c].hist :
           ~(IsAsked(events[j], call[c].signature) /\ events[j].job_id # NoJob)

\* Among the events worker c fetched, event k is the newest human_response
\* event of the job.
NewestResponse(c, job_id, k) ==
    /\ k \in 1..call[c].hist
    /\ IsResponseTo(events[k], job_id)
    /\ \A j \in (k + 1)..call[c].hist : ~IsResponseTo(events[j], job_id)

\* C1 as stated: when the history a call fetched holds a human_asked event
\* with the call's signature and job J and a human_response event for J with
\* a string answer, the call returns that answer and appends no event,
\* creates no notification and looks no response up.
C1_IdempotentAsk ==
    \A c \in Workers : call[c].pc # "idle" =>
        \A i, k \in 1..call[c].hist :
            ( /\ IsAsked(events[i], call[c].signature)
              /\ IsResponseTo(events[k], events[i].job_id)
              /\ events[k].data.is_str )
            => Immediate(c) /\ call[c].result = events[k].data.answer

\* C1 amended: when the newest human_asked event with the call's signature
\* (and a job id) in the fetched history has job J and the newest
\* human_response event for J in that history has a string answer, the call
\* returns that answer and appends no event, creates no notification and
\* looks no response up.
C1_NewestAnswerReused ==
    \A c \in Workers : call[c].pc # "idle" =>
        \A i, k \in 1..call[c].hist :
            ( /\ NewestAsked(c, i)
              /\ NewestResponse(c, events[i].job_id, k)
              /\ events[k].data.is_str )
            => Immediate(c) /\ call[c].result = events[k].data.answer

\* A call has returned the string answer of the newest response of a job
\* that has an older response too.
C1_Witness ==
    \E c \in Workers : \E i, k, j \in 1..call[c].hist :
        /\ NewestAsked(c, i)
        /\ NewestResponse(c, events[i].job_id, k)
        /\ events[k].data.is_str
        /\ j < k
        /\ IsResponseTo(events[j], events[i].job_id)
        /\ Immediate(c)
        /\ call[c].result = events[k].data.answer

\* C2 as stated: the log never holds two human_asked events with the same
\* signature.
C2_AtMostOneQuestion ==
    \A i, j \in 1..Len(events) :
        ( /\ i < j
          /\ events[i].event_type = "human_asked"
          /\ events[j].event_type = "human_asked" )
        => events[i].data.signature # events[j].data.signature

Signatures ==
    { MakeSignature(q.role, q.text, q.type, NormalizeOptions(q.options)) : q \in Questions }

\* C2 amended: a call appends at most one human_asked event, and none when
\* it returns a stored response, so the log never holds more human_asked
\* events with one signature than calls were begun with that signature that
\* did not return a stored response.
C2_AtMostOneQuestionPerCall ==
    /\ \A c \in Workers :
           /\ call[c].appended <= 1
           /\ call[c].scan = "reuse" => call[c].appended = 0
    /\ \A signature \in Signatures :
           Cardinality({i \in 1..Len(events) : IsAsked(events[i], signature)})
           <= Cardinality({c \in Workers : /\ call[c].pc # "idle"
                                           /\ call[c].signature = signature
                                           /\ call[c].scan # "reuse"})

\* Two overlapping calls with one signature have each appended a human_asked
\* event.
C2_Witness ==
    \E a, b \in Workers :
        /\ a # b
        /\ call[a].signature = call[b].signature
        /\ call[a].appended = 1
        /\ call[b].appended = 1
        /\ a \notin call[b].prior
        /\ b \notin call[a].prior

\* C3 as stated: when the history a call fetched holds a human_asked event
\* with the call's signature and job J (the newest such event, when there
\* are several) and no human_response event for J, the call looks up
\* responses of J only, mints no job and appends no event.
C3_JoinInProgress ==
    \A c \in Workers : call[c].pc # "idle" =>
        \A i \in 1..call[c].hist :
            ( /\ NewestAsked(c, i)
              /\ \A k \in 1..call[c].hist : ~IsResponseTo(events[k], events[i].job_id) )
            => /\ call[c].polled \subseteq {events[i].job_id}
               /\ call[c].job_id = events[i].job_id
               /\ call[c].appended = 0

\* C4 as stated: a poll loop that has aborted after three consecutive lookup
\* errors has ended the call with a failure, also on a joined job: the call
\* does nothing more.
C4_PollingHardStop ==
    \A c \in Workers :
        call[c].aborted => call[c].pc = "raised" /\ call[c].error = "polling"

\* The last n outcomes of seen are lookup errors.
AllErrors(seen, n) ==
    /\ Len(seen) >= n
    /\ \A j \in (Len(seen) - n + 1)..Len(seen) : seen[j] = "error"

\* The number of lookup errors seen ends with.
TrailingErrors(seen) ==
    CHOOSE n \in 0..Len(seen) :
        AllErrors(seen, n) /\ (n < Len(seen) => seen[Len(seen) - n] # "error")

\* C5: a lookup aborts the poll loop exactly when it is the third lookup
\* error in a row; an empty successful lookup resets the count, so a loop
\* that goes on counts exactly the errors its lookups ended with.
C5_ErrorEscalation ==
    [][\A c \in Workers :
         ( /\ call[c].pc = "poll"
           /\ call[c].now < TimeoutSec
           /\ call'[c] # call[c] )
         => /\ call'[c].pc \in {"raised", "save_event"} <=> AllErrors(observed', 3)
            /\ call'[c].pc = "poll" =>
                   call'[c].error_count = TrailingErrors(observed')]_vars

\* A loop goes on after two errors, an empty lookup and two more errors.
C5_Witness ==
    \E c \in Workers :
        /\ call[c].pc = "poll"
        /\ call[c].error_count = 2
        /\ observed = <<"error", "error", "ok", "error", "error">>

\* C6: a poll loop whose deadline has passed returns the sentinel as the
\* call's result, whatever the last lookups were: it raises nothing, looks
\* nothing up and writes nothing.
C6_TimeoutAsValue ==
    [][\A c \in Workers :
         ( /\ call[c].pc = "poll"
           /\ call[c].now >= TimeoutSec
           /\ call'[c] # call[c] )
         => /\ call'[c].pc = "returned"
            /\ call'[c].result = RejectionSentinel
            /\ call'[c].error = call[c].error
            /\ call'[c].aborted = call[c].aborted
            /\ call'[c].polled = call[c].polled
            /\ events' = events
            /\ notifications' = notifications]_vars

\* A call has returned the sentinel after a loop whose last two lookups
\* failed.
C6_Witness ==
    \E c \in Workers :
        /\ call[c].pc = "returned"
        /\ call[c].outcome = "timeout"
        /\ call[c].result = RejectionSentinel
        /\ call[c].error = "none"
        /\ AllErrors(observed, 2)

\* The job whose response a call has returned.
AnswerJob(c) ==
    IF call[c].outcome = "reused" THEN call[c].scan_job ELSE call[c].job_id

\* C7: a call that has returned has returned the sentinel, after a timeout,
\* or the answer of a human_response event whose job is the job of a
\* human_asked event with the call's signature.
C7_Correlation ==
    \A c \in Workers : call[c].pc = "returned" =>
        \/ call[c].outcome = "timeout" /\ call[c].result = RejectionSentinel
        \/ /\ call[c].outcome \in {"answer", "reused"}
           /\ \E i, k \in 1..Len(events) :
                  /\ IsAsked(events[i], call[c].signature)
                  /\ events[i].job_id = AnswerJob(c)
                  /\ IsResponseTo(events[k], events[i].job_id)
                  /\ call[c].result = AnswerText(events[k].data)

\* A call has returned the answer to its question while the log holds
\* another answer to a question with another signature.
C7_Witness ==
    \E c \in Workers : \E i, k \in 1..Len(events) :
        /\ call[c].pc = "returned"
        /\ call[c].outcome = "answer"
        /\ events[i].event_type = "human_asked"
        /\ events[i].data.signature # call[c].signature
        /\ IsResponseTo(events[k], events[i].job_id)
        /\ AnswerText(events[k].data) # call[c].result

\* C8 as stated: after a call with signature S has returned a human answer,
\* a later call with S that returns returns that answer; after a call with S
\* has returned the sentinel on timeout, a later call with S returns the
\* sentinel and looks nothing up.
C8_TerminalStates ==
    \A b \in Workers : \A a \in call[b].prior :
        ( /\ call[a].signature = call[b].signature
          /\ call[a].pc = "returned" )
        => /\ call[a].outcome \in {"answer", "reused"} =>
                  (call[b].pc = "returned" => call[b].result = call[a].result)
           /\ call[a].outcome = "timeout" =>
                  /\ call[b].polled = {}
                  /\ call[b].pc = "returned" => call[b].result = RejectionSentinel

\* C8 amended: after a call with signature S has returned on job J (a human
\* answer, or the sentinel on timeout), a later call with S whose fetched
\* history has J as its newest question with S returns the newest response
\* of J in that history at once, when there is one; when there is none (the
\* earlier call timed out: the log records no timeout) it waits on J again.
C8_AnsweredIsReusedTimedOutIsJoined ==
    \A b \in Workers : \A a \in call[b].prior : \A i \in 1..call[b].hist :
        ( /\ call[a].signature = call[b].signature
          /\ call[a].pc = "returned"
          /\ NewestAsked(b, i)
          /\ events[i].job_id = AnswerJob(a) )
        => IF \E k \in 1..call[b].hist : IsResponseTo(events[k], events[i].job_id)
           THEN /\ Immediate(b)
                /\ \E k \in 1..call[b].hist :
                       /\ NewestResponse(b, events[i].job_id, k)
                       /\ call[b].result = AnswerText(events[k].data)
           ELSE /\ call[a].outcome = "timeout"
                /\ call[b].scan = "join"
                /\ call[b].scan_job = events[i].job_id

\* After a call timed out on a job, a later call with the same signature
\* has waited on the job again and returned a late answer.
C8_Witness ==
    \E b \in Workers : \E a \in call[b].prior :
        /\ call[a].signature = call[b].signature
        /\ call[a].outcome = "timeout"
        /\ call[b].scan = "join"
        /\ call[b].scan_job = call[a].job_id
        /\ call[b].outcome = "answer"

\* C9: a call whose human_asked event could not be appended has failed; it
\* has appended nothing, created no notification and looked up no response
\* of the job it minted.
C9_AppendFailureFatal ==
    \A c \in Workers : call[c].error = "append" =>
        /\ call[c].pc = "raised"
        /\ call[c].appended = 0
        /\ call[c].notified = 0
        /\ call[c].job_id \notin call[c].polled

\* A call has failed on the append; the log holds no question and there is
\* no notification.
C9_Witness ==
    \E c \in Workers :
        /\ call[c].error = "append"
        /\ call[c].pc = "raised"
        /\ events = <<>>
        /\ notifications = <<>>

\* C10: a call whose notification could not be created has failed; it has
\* looked up no response of its job, and the human_asked event it appended
\* is in the log.
C10_NotificationFailureFatal ==
    \A c \in Workers : call[c].error = "notify" =>
        /\ call[c].pc = "raised"
        /\ call[c].notified = 0
        /\ call[c].job_id \notin call[c].polled
        /\ call[c].appended = 1
        /\ \E i \in 1..Len(events) :
               /\ IsAsked(events[i], call[c].signature)
               /\ events[i].job_id = call[c].job_id

\* A call has failed on the notification and its question is the last event
\* of the log.
C10_Witness ==
    \E c \in Workers :
        /\ call[c].error = "notify"
        /\ call[c].pc = "raised"
        /\ events # <<>>
        /\ IsAsked(events[Len(events)], call[c].signature)
        /\ events[Len(events)].job_id = call[c].job_id
        /\ notifications = <<>>

\* C11: a call whose history fetch failed goes on as with an empty history,
\* whatever the log holds: the scan finds nothing, the call mints a job,
\* appends at most one human_asked event (exactly one once it notifies or
\* polls) and looks up that job only; when it fails, it fails on the append,
\* the notification or the polling, never on the fetch.
C11_FetchFailureNotFatal ==
    \A c \in Workers : call[c].fetch = "failed" =>
        /\ call[c].hist = 0
        /\ call[c].scan = "new"
        /\ ~call[c].joined
        /\ call[c].pc \in {"save_event", "notify", "poll", "returned", "raised"}
        /\ call[c].pc = "save_event" => call[c].appended = 0
        /\ call[c].pc = "raised" => call[c].error \in {"append", "notify", "polling"}
        /\ call[c].pc = "returned" => call[c].outcome \in {"answer", "timeout"}
        /\ call[c].polled \subseteq {call[c].job_id}
        /\ (call[c].pc \in {"notify", "poll", "returned"} \/ call[c].polled # {}) =>
               /\ call[c].appended = 1
               /\ call[c].job_id \in 1..Len(events)
               /\ IsAsked(events[call[c].job_id], call[c].signature)
               /\ events[call[c].job_id].job_id = call[c].job_id

\* A call whose history fetch failed polls a job of its own while the log
\* holds an older human_asked event with the same signature.
C11_Witness ==
    \E c \in Workers : \E i \in 1..Len(events) :
        /\ call[c].fetch = "failed"
        /\ call[c].pc = "poll"
        /\ call[c].polled = {call[c].job_id}
        /\ i < call[c].job_id
        /\ IsAsked(events[i], call[c].signature)

\* =========================================================================
\* Capability Provisioner, Connection Supervisor and registry
\* (tools/safe_tool_loader.py, tools/knowledge_manager.py).
\* =========================================================================

\* ------------------------------------------------------------------ bounds
\* Number of calls of create_tools_from_names, one after the other, each on
\* a new SafeToolLoader instance.
MaxProvisions == 2
\* Number of calls of shutdown_all_adapters, one after the other.
MaxShutdowns == 1
\* The same two numbers where the two kinds of call overlap (SpecRace).
MaxRaceProvisions == 1
MaxRaceShutdowns == 2
\* Number of calls of create_tools_from_names of SpecBridge.
MaxBridgeCalls == 1

\* ------------------------------------------------------- program constants
\* max_retries and retry_delay of _load_mcp_tool
MaxRetries == 2
RetryDelay == 5

\* self.local_tools
LocalTools == {"mem0", "memento", "human_asked", "dmn_rule"}

\* ----------------------------------------------------------------- inputs
\* "not x" for an optional string
Falsy(x) == x \in {None, ""}

\* str.lower() and str.strip().lower() on the strings of the model
Lower(s) ==
    CASE s = "A2A" -> "a2a"
      [] s = "SSE" -> "sse"
      [] s = " SRV_A " -> " srv_a "
      [] s = "A2A: y " -> "a2a: y "
      [] OTHER -> s

StripLower(s) ==
    CASE Lower(s) = " srv_a " -> "srv_a"
      [] Lower(s) = "a2a: y " -> "a2a: y"
      [] OTHER -> Lower(s)

\* s.startswith("a2a:") on the strings of the model
StartsWithA2A(s) == s \in {"a2a:x", "a2a:z", "a2a: y", "a2a: y "}

\* name.split(":", 1)[1].strip() of a name that starts with a2a:
A2ACandidate(name) ==
    CASE Lower(name) = "a2a:x" -> "x"
      [] Lower(name) = "a2a:z" -> "z"
      [] OTHER -> "y"

\* The (tenant_id, user_id, agent_name) a SafeToolLoader is built with.
LoaderContexts ==
    { [tenant_id |-> None, user_id |-> None, agent_name |-> None],
      [tenant_id |-> None, user_id |-> "u1", agent_name |-> "bot"],
      [tenant_id |-> "acme", user_id |-> None, agent_name |-> "bot"],
      [tenant_id |-> "acme", user_id |-> "u1", agent_name |-> "bot"] }

\* A URL: its scheme prefix and the rest.
Url(scheme, rest) == [scheme |-> scheme, rest |-> rest]
NoUrl == Url(None, "")

\* The headers of a descriptor: absent, or a mapping (a set of pairs).
NoHeaders == [absent |-> TRUE, pairs |-> {}]
Headers(pairs) == [absent |-> FALSE, pairs |-> pairs]

\* The timeout of a descriptor when the key is absent.
NoTimeout == 0

\* A server descriptor: an entry of mcp_config["mcpServers"].
Descriptor(transport, type, command, args, url, headers, timeout) ==
    [transport |-> transport, type |-> type, command |-> command,
     args |-> args, url |-> url, headers |-> headers, timeout |-> timeout]

\* mcp_config["mcpServers"]: srv_a is an npx stdio server, srv_b an SSE
\* server, nocmd a stdio entry without command, nopkg an npx entry whose
\* args end after -y, a2a:x a server whose key has the a2a: prefix and
\* mem0 a server whose key is the name of a built-in.
McpServers ==
    ("srv_a" :> Descriptor(None, None, "npx", <<"-y", "pkg">>, NoUrl,
                           NoHeaders, NoTimeout))
    @@ ("srv_b" :> Descriptor("SSE", None, None, <<>>,
                              Url("https://", "h/sse"), NoHeaders, NoTimeout))
    @@ ("nocmd" :> Descriptor(None, None, None, <<>>, NoUrl, NoHeaders,
                              NoTimeout))
    @@ ("nopkg" :> Descriptor(None, None, "npx", <<"-y">>, NoUrl, NoHeaders,
                              NoTimeout))
    @@ ("a2a:x" :> Descriptor(None, None, None, <<>>,
                              Url("https://", "h/mcp"), NoHeaders, NoTimeout))
    @@ ("mem0" :> Descriptor(None, None, None, <<>>,
                             Url("https://", "h/mem0"), NoHeaders, NoTimeout))

\* The tool_names argument.
ToolNameLists ==
    { <<>>, <<"srv_a">>, <<"srv_a", " SRV_A ">>, <<"srv_a", "srv_b">>,
      <<"ghost", "srv_b">>, <<"nocmd", "srv_b">>,
      <<"mem0", "mem0", "memento">>, <<"mem0", "srv_a">>,
      <<"a2a:x", "srv_a">>, <<"a2a:x", "A2A: y ">>, <<"nopkg", "srv_b">>,
      <<"a2a:z", "a2a:x">> }

\* The agent_type argument.
AgentTypes == {None, "A2A"}

\* a2a_endpoints: x and z have a url, y has none (and no environment
\* variable).
A2AEndpoints == {"x", "z"}

\* The names of adapter.tools of a connection to a server.
Published(key) ==
    IF key = "srv_a" THEN <<"search">> ELSE <<"search", "fetch">>

\* How one connection attempt ends: MCPServerAdapter(params) raises, the
\* adapter is built and reading adapter.tools raises, or the capabilities
\* are returned.
AttemptOutcomes == {"connect_raises", "tools_raises", "ok"}

\* A capability: its name and the handle it came from (0: not from a handle).
Capability(name, handle) == [name |-> name, handle |-> handle]

\* ------------------------------------------------------- transport resolver
\* _get_mcp_config: the entry of the server, or {}
NoServerConfig == [empty |-> TRUE]
GetMcpConfig(key) ==
    IF key \in DOMAIN McpServers
    THEN [empty |-> FALSE, cfg |-> McpServers[key]]
    ELSE NoServerConfig

\* _build_server_parameters: the parameters of the adapter, or None.  The
\* parameters of stdio are a StdioServerParameters (command, args, env,
\* timeout), the others a dict (transport, url, headers, timeout).
NoParameters ==
    [is_none |-> TRUE, transport |-> None, target |-> None, headers |-> {},
     timeout |-> 0]
Parameters(transport, target, headers, timeout) ==
    [is_none |-> FALSE, transport |-> transport, target |-> target,
     headers |-> headers, timeout |-> timeout]

\* Line 244: timeout = server_cfg.get("timeout", 40)
DefaultTimeout == 40
TimeoutOf(cfg) ==
    IF cfg.timeout = NoTimeout THEN DefaultTimeout ELSE cfg.timeout

\* headers = server_cfg.get("headers", {}) or {}
HeadersOf(cfg) == IF cfg.headers.absent THEN {} ELSE cfg.headers.pairs

\* Line 344 with the two fields exchanged (not the program).
DeclaredTypeFirst(cfg) ==
    IF ~Falsy(cfg.type) THEN cfg.type ELSE cfg.transport

\* Line 344: server_cfg.get("transport") or server_cfg.get("type")
Declared(cfg) ==
    IF ~Falsy(cfg.transport) THEN cfg.transport ELSE cfg.type

\* Lines 344-352: the transport of a descriptor.
ResolveTransport(cfg) ==
    LET declared == Declared(cfg)
        transport_value ==
            IF ~Falsy(declared) THEN declared
            ELSE IF cfg.url.scheme \in {"ws://", "wss://"} THEN "websocket"
            ELSE IF cfg.url.scheme \in {"http://", "https://"}
                 THEN "streamable-http"
            ELSE None
    IN  IF Falsy(transport_value) THEN "stdio" ELSE Lower(transport_value)

\* "not url" for the url of a descriptor
NoUrlGiven(cfg) == Falsy(cfg.url.scheme) /\ cfg.url.rest = ""
UrlText(url) == IF Falsy(url.scheme) THEN url.rest ELSE url.scheme \o url.rest

\* Lines 357-359 returning parameters without a command (not the program).
StdioParametersAnyway(cfg, timeout) ==
    Parameters("stdio", cfg.command, {}, timeout)

\* Lines 355-369: stdio needs a command.
StdioParameters(cfg, timeout) ==
    IF Falsy(cfg.command) THEN NoParameters
    ELSE Parameters("stdio", cfg.command, {}, timeout)

\* Lines 372-411: the other transports need a url.
UrlParameters(transport, cfg, timeout) ==
    IF NoUrlGiven(cfg) THEN NoParameters
    ELSE Parameters(transport, UrlText(cfg.url), HeadersOf(cfg), timeout)

BuildServerParameters(cfg, timeout) ==
    LET transport == ResolveTransport(cfg)
    IN  CASE transport \in {"", "stdio"} -> StdioParameters(cfg, timeout)
          [] transport = "websocket" ->
                 UrlParameters("websocket", cfg, timeout)
          [] transport \in {"streamable-http", "http"} ->
                 UrlParameters("streamable-http", cfg, timeout)
          [] transport = "sse" -> UrlParameters("sse", cfg, timeout)
          [] OTHER -> NoParameters

\* warmup_server(key): not an npx server with -y: nothing is done; args
\* that end after -y: line 60 raises IndexError; else the package is
\* fetched by a quick try and, when that fails, a slow one, whose failures
\* are swallowed.
WarmupOutcomes == {"ok", "timeout", "error"}
WarmupServer(key, quick, slow) ==
    LET server_cfg == GetMcpConfig(key)
        args == server_cfg.cfg.args
    IN  IF server_cfg.empty THEN "skipped"
        ELSE IF server_cfg.cfg.command # "npx" THEN "skipped"
        ELSE IF ~(args # <<>> /\ args[1] = "-y") THEN "skipped"
        ELSE IF Len(args) < 2 THEN "raised"
        ELSE IF quick = "ok" \/ slow = "ok" THEN "cached"
        ELSE "failed"

\* ------------------------------------------------------- built-in loaders
\* What a loader of a built-in returns: the tools, or raised.
Loaded(names) == [raised |-> FALSE, names |-> names]
LoadRaised == [raised |-> TRUE, names |-> <<>>]

\* Mem0Tool(tenant_id, user_id): _initialize_memory builds the memory
\* client, which can fail.
LoadMem0(loader, mem0_ok) ==
    IF Falsy(loader.user_id) THEN Loaded(<<>>)
    ELSE IF mem0_ok THEN Loaded(<<"mem0">>)
    ELSE LoadRaised

\* MementoTool.__init__(tenant_id, **kwargs): line 261 reads proc_inst_id,
\* which is no parameter, local or global of the module: NameError.
MementoToolInit(tenant_id) == LoadRaised

LoadMemento(loader) ==
    IF Falsy(loader.tenant_id) THEN Loaded(<<>>)
    ELSE MementoToolInit(loader.tenant_id)

LoadHumanAsked(loader) ==
    IF Falsy(loader.tenant_id) \/ Falsy(loader.agent_name) THEN Loaded(<<>>)
    ELSE Loaded(<<"human_asked">>)

LoadDmnRule(loader) ==
    IF Falsy(loader.tenant_id) \/ Falsy(loader.user_id) THEN Loaded(<<>>)
    ELSE Loaded(<<"dmn_rule">>)

\* Lines 106-113: the four loaders in order; the first that raises ends
\* the call.
LoadBuiltins(loader, mem0_ok) ==
    LET mem0 == LoadMem0(loader, mem0_ok)
        memento == LoadMemento(loader)
        human_asked == LoadHumanAsked(loader)
        dmn_rule == LoadDmnRule(loader)
    IN  CASE mem0.raised -> [error |-> "mem0", names |-> <<>>]
          [] memento.raised -> [error |-> "memento", names |-> <<>>]
          [] human_asked.raised -> [error |-> "human_asked", names |-> <<>>]
          [] dmn_rule.raised -> [error |-> "dmn_rule", names |-> <<>>]
          [] OTHER -> [error |-> "none",
                       names |-> mem0.names \o memento.names
                                 \o human_asked.names \o dmn_rule.names]

\* The tools of a list of names that come from the handle.
RECURSIVE Capabilities(_, _)
Capabilities(names, handle) ==
    IF names = <<>> THEN <<>>
    ELSE <<Capability(Head(names), handle)>> \o Capabilities(Tail(names), handle)

\* Lines 122-125: the names of tool_names that start with a2a:
RECURSIVE A2ACandidates(_)
A2ACandidates(tool_names) ==
    IF tool_names = <<>> THEN <<>>
    ELSE (IF StartsWithA2A(Lower(Head(tool_names)))
          THEN <<A2ACandidate(Head(tool_names))>> ELSE <<>>)
         \o A2ACandidates(Tail(tool_names))

\* _resolve_a2a_endpoint: whether the name has an endpoint
ResolveA2AEndpoint(name) == name \in A2AEndpoints

\* _create_all: one A2A tool per candidate that has an endpoint and whose
\* creation succeeds (create_ok[n]); a failed creation is logged.
RECURSIVE CreateAll(_, _, _)
CreateAll(candidates, create_ok, n) ==
    IF n > Len(candidates) THEN <<>>
    ELSE (IF ResolveA2AEndpoint(candidates[n]) /\ create_ok[n]
          THEN <<Capability("A2A:" \o candidates[n], 0)>> ELSE <<>>)
         \o CreateAll(candidates, create_ok, n + 1)

\* No call is in progress.
CallEnded(pc) == pc \in {"idle", "returned", "raised"}

\* ---------------------------------------------------------------- actions
\* Line 121 without the test of the mode (not the program).
IsA2AModeAlways(agent_type) == TRUE

\* Line 121: (agent_type or "").lower() == "a2a"
IsA2AMode(agent_type) ==
    Lower(IF Falsy(agent_type) THEN "" ELSE agent_type) = "a2a"

\* create_tools_from_names, lines 98-131: the built-ins, then the A2A
\* candidates.  The call runs on a new SafeToolLoader (instance).
ProvisionBegin(loader, tool_names, agent_type, mem0_ok) ==
    LET builtins == LoadBuiltins(loader, mem0_ok)
        candidates ==
            IF IsA2AMode(agent_type)
            THEN A2ACandidates(tool_names) ELSE <<>>
        begun == [IdleProvision EXCEPT
                    !.instance = prov.instance + 1,
                    !.tenant_id = loader.tenant_id,
                    !.user_id = loader.user_id,
                    !.agent_name = loader.agent_name,
                    !.tool_names = tool_names,
                    !.agent_type = agent_type]
    IN  /\ CallEnded(prov.pc)
        /\ loop.running => loop.current = "caller"
        /\ prov' =
             CASE builtins.error # "none" ->
                      [begun EXCEPT !.pc = "raised", !.error = builtins.error]
               [] candidates # <<>> ->
                      [begun EXCEPT !.pc = "bridge",
                                    !.tools = Capabilities(builtins.names, 0),
                                    !.candidates = candidates]
               [] OTHER ->
                      [begun EXCEPT !.pc = "mcp", !.i = 1,
                                    !.tools = Capabilities(builtins.names, 0)]
        /\ UNCHANGED <<adapters, handles, shut, loop>>

\* _load_a2a_tools returned: line 128 extends tools, the MCP loop begins.
A2ALoaded(me, loaded) ==
    [me EXCEPT !.pc = "mcp", !.i = 1, !.loaded = loaded,
               !.tools = me.tools \o loaded]

\* Lines 437-442: a creation raised for a candidate that has an endpoint.
CreateFailed(candidates, create_ok) ==
    \E n \in 1..Len(candidates) :
        ResolveA2AEndpoint(candidates[n]) /\ ~create_ok[n]

\* The places of the candidates whose creation raised.
FailedAt(candidates, create_ok) ==
    {n \in 1..Len(candidates) :
        ResolveA2AEndpoint(candidates[n]) /\ ~create_ok[n]}

\* A2ACreated with a failed creation raised to the caller (not the
\* program).
A2ACreateRaised(me, create_ok) ==
    IF CreateFailed(me.candidates, create_ok)
    THEN [me EXCEPT !.pc = "raised", !.error = "a2a",
                    !.create_failed = TRUE,
                    !.failed_at = FailedAt(me.candidates, create_ok)]
    ELSE A2ALoaded(me, CreateAll(me.candidates, create_ok, 1))

\* _create_all ran to its end: the handler of lines 441-442 logs each
\* failed creation and goes on with the next candidate; nothing is raised.
A2ACreated(me, create_ok) ==
    [A2ALoaded(me, CreateAll(me.candidates, create_ok, 1)) EXCEPT
        !.create_failed = CreateFailed(me.candidates, create_ok),
        !.failed_at = FailedAt(me.candidates, create_ok)]

\* _load_a2a_tools, lines 444-454: with a loop running in this thread the
\* coroutine is handed to that loop and the thread waits for the future;
\* with none, asyncio.run runs the coroutine on a loop of its own.
Bridge(create_ok) ==
    /\ prov.pc = "bridge"
    /\ IF loop.running
       THEN /\ loop' = [loop EXCEPT !.queue = Append(loop.queue, "create_all")]
            /\ prov' = [prov EXCEPT !.pc = "fut_result"]
       ELSE /\ prov' = A2ACreated(prov, create_ok)
            /\ UNCHANGED loop
    /\ UNCHANGED <<adapters, handles, shut>>

\* The host starts an event loop in the thread; its first callback is the
\* one that calls create_tools_from_names.
LoopStart ==
    /\ ~loop.running
    /\ CallEnded(prov.pc)
    /\ loop' = [running |-> TRUE, current |-> None, queue |-> <<"caller">>]
    /\ UNCHANGED <<adapters, handles, prov, shut>>

\* The loop, between two callbacks, runs the next one of its queue: the
\* caller, or a submitted _create_all, run to its end, which completes the
\* future the caller waits for.
LoopStep(create_ok) ==
    /\ loop.running
    /\ loop.current = None
    /\ loop.queue # <<>>
    /\ IF Head(loop.queue) = "create_all"
       THEN /\ loop' = [loop EXCEPT !.queue = Tail(loop.queue)]
            /\ prov' = A2ACreated(prov, create_ok)
       ELSE /\ loop' = [loop EXCEPT !.queue = Tail(loop.queue),
                                    !.current = Head(loop.queue)]
            /\ UNCHANGED prov
    /\ UNCHANGED <<adapters, handles, shut>>

\* The callback that made the call ends: the loop is between two callbacks.
CallbackReturn ==
    /\ loop.running
    /\ loop.current = "caller"
    /\ CallEnded(prov.pc)
    /\ prov.pc # "idle"
    /\ loop' = [loop EXCEPT !.current = None]
    /\ UNCHANGED <<adapters, handles, prov, shut>>

\* A skipped name ends the call (not the program).
SkipToolRaised(me, key) ==
    [me EXCEPT !.key = key, !.pc = "raised", !.error = "connect"]

\* Lines 141-146, 236-238 and 265-267: the name adds nothing and the loop
\* goes on with the next name.
SkipTool(me, key) == [me EXCEPT !.i = me.i + 1, !.key = key]

\* Lines 137-153 up to the first attempt of _load_mcp_tool: a local name
\* and an a2a: name are passed over; the others are warmed up (warmup
\* records how that went); a name without configuration and a server
\* whose parameters cannot be built add nothing; line 156 returns tools.
LoadNext(quick, slow) ==
    LET key == StripLower(prov.tool_names[prov.i])
        server_cfg == GetMcpConfig(key)
        warmup == WarmupServer(key, quick, slow)
        warmed == [prov EXCEPT !.warmup = warmup]
    IN  /\ prov.pc = "mcp"
        /\ prov' =
             IF prov.i > Len(prov.tool_names)
             THEN [prov EXCEPT !.pc = "returned"]
             ELSE IF key \in LocalTools \/ StartsWithA2A(key)
                  THEN SkipTool([prov EXCEPT !.warmup = "none"], key)
             ELSE IF warmup = "raised"
                  THEN [warmed EXCEPT !.key = key, !.pc = "raised",
                                      !.error = "warmup"]
             ELSE IF server_cfg.empty THEN SkipTool(warmed, key)
             ELSE IF BuildServerParameters(server_cfg.cfg,
                                           TimeoutOf(server_cfg.cfg)).is_none
                  THEN SkipTool(warmed, key)
             ELSE [warmed EXCEPT !.pc = "attempt", !.key = key, !.attempt = 1,
                                 !.attempts = 0, !.failures = 0, !.slept = 0,
                                 !.before = adapters]
        /\ UNCHANGED <<adapters, handles, shut, loop>>

\* Line 288 with attempt <= max_retries (not the program).
ShouldRetryInclusive(attempt) == attempt <= MaxRetries

\* Line 288: sleep and try again, or raise
ShouldRetry(attempt) == attempt < MaxRetries

\* Lines 285-293: the handler of a failed attempt.
AttemptFailed(me) ==
    IF ShouldRetry(me.attempt)
    THEN [me EXCEPT !.attempts = me.attempts + 1,
                    !.failures = me.failures + 1,
                    !.slept = me.slept + RetryDelay,
                    !.attempt = me.attempt + 1]
    ELSE [me EXCEPT !.attempts = me.attempts + 1,
                    !.failures = me.failures + 1,
                    !.pc = "raised", !.error = "connect"]

\* Line 279: the adapter is put in the registry as soon as it is built.
\* A handle records its server key, the loader instance that built it, the
\* number of times its stop() returned, where shutdown_all_adapters was
\* when it was registered (during) and whether its capabilities were
\* returned by _load_mcp_tool.
NewHandle(key) == Len(handles) + 1
Register(key, returned) ==
    /\ handles' = Append(handles, [key |-> key, instance |-> prov.instance,
                                   stops |-> 0, during |-> shut.pc,
                                   returned |-> returned])
    /\ adapters' = Append(adapters, NewHandle(key))

\* Lines 262-293: one attempt of _load_mcp_tool(key).
Attempt(outcome) ==
    /\ prov.pc = "attempt"
    /\ prov.attempt <= MaxRetries
    /\ CASE outcome = "connect_raises" ->
                /\ prov' = AttemptFailed(prov)
                /\ UNCHANGED <<adapters, handles>>
         [] outcome = "tools_raises" ->
                /\ Register(prov.key, FALSE)
                /\ prov' = AttemptFailed(prov)
         [] OTHER ->
                /\ Register(prov.key, TRUE)
                /\ prov' = [prov EXCEPT
                              !.pc = "mcp", !.i = prov.i + 1,
                              !.attempts = prov.attempts + 1,
                              !.tools = prov.tools \o
                                  Capabilities(Published(prov.key),
                                               NewHandle(prov.key))]
    /\ UNCHANGED <<shut, loop>>

\* shutdown_all_adapters, line 493-494: the loop over the registry begins.
ShutdownBegin ==
    /\ CallEnded(shut.pc)
    /\ shut' = [IdleShutdown EXCEPT !.pc = "loop", !.start = adapters,
                                    !.number = shut.number + 1]
    /\ UNCHANGED <<adapters, handles, prov, loop>>

\* The iterator of the list ends one item early (not the program).
IteratorExhaustedEarly(i, registry) == i + 1 >= Len(registry)

\* Line 494: the iterator of a list ends where its index reaches the
\* length the list has then.
IteratorExhausted(i, registry) == i >= Len(registry)

\* Lines 499-501 without the raise (not the program).
StopFailureSwallowed(me) == [me EXCEPT !.error = "stop", !.i = me.i + 1]

\* Lines 499-501: a stop() that raises is logged and raised again.
StopFailed(me) == [me EXCEPT !.error = "stop", !.pc = "raised"]

\* Lines 494-501: one turn of the loop.
ShutdownStep(stop_ok) ==
    /\ shut.pc = "loop"
    /\ IF IteratorExhausted(shut.i, adapters)
       THEN /\ shut' = [shut EXCEPT !.pc = "clear"]
            /\ UNCHANGED handles
       ELSE LET handle == adapters[shut.i + 1]
            IN  IF stop_ok
                THEN /\ handles' = [handles EXCEPT
                                      ![handle].stops = handles[handle].stops + 1]
                     /\ shut' = [shut EXCEPT !.i = shut.i + 1,
                                             !.closed = Append(shut.closed, handle)]
                ELSE /\ shut' = StopFailed(shut)
                     /\ UNCHANGED handles
    /\ UNCHANGED <<adapters, prov, loop>>

\* The registry is left as it is (not the program).
RegistryKept(registry) == registry

\* Line 503: cls.adapters.clear()
RegistryCleared(registry) == <<>>

\* Lines 502-503: the registry is emptied and the call returns.
ShutdownClear ==
    /\ shut.pc = "clear"
    /\ adapters' = RegistryCleared(adapters)
    /\ shut' = [shut EXCEPT !.pc = "returned"]
    /\ UNCHANGED <<handles, prov, loop>>

\* ---------------------------------------------------------- specifications
\* SpecTools: the calls of create_tools_from_names and the calls of
\* shutdown_all_adapters are made by one thread: a call begins when the
\* other call has ended.
NextTools ==
    \/ \E loader \in LoaderContexts, tool_names \in ToolNameLists,
          agent_type \in AgentTypes, mem0_ok \in BOOLEAN :
           /\ prov.instance < MaxProvisions
           /\ CallEnded(shut.pc)
           /\ ProvisionBegin(loader, tool_names, agent_type, mem0_ok)
           /\ UNCHANGED <<hqVars, auxVars>>
    \/ \E create_ok \in [1..2 -> BOOLEAN] : Bridge(create_ok) /\ UNCHANGED <<hqVars, auxVars>>
    \/ \E quick, slow \in WarmupOutcomes :
           LoadNext(quick, slow) /\ UNCHANGED <<hqVars, auxVars>>
    \/ \E outcome \in AttemptOutcomes : Attempt(outcome) /\ UNCHANGED <<hqVars, auxVars>>
    \/ /\ shut.number < MaxShutdowns
       /\ CallEnded(prov.pc)
       /\ ShutdownBegin
       /\ UNCHANGED <<hqVars, auxVars>>
    \/ \E stop_ok \in BOOLEAN : ShutdownStep(stop_ok) /\ UNCHANGED <<hqVars, auxVars>>
    \/ ShutdownClear /\ UNCHANGED <<hqVars, auxVars>>

SpecTools == Init /\ [][NextTools]_vars

\* SpecRace: one thread makes the calls of create_tools_from_names, another
\* the calls of shutdown_all_adapters; their steps interleave in any way.
NextRace ==
    \/ \E loader \in LoaderContexts, tool_names \in ToolNameLists,
          agent_type \in AgentTypes, mem0_ok \in BOOLEAN :
           /\ prov.instance < MaxRaceProvisions
           /\ ProvisionBegin(loader, tool_names, agent_type, mem0_ok)
           /\ UNCHANGED <<hqVars, auxVars>>
    \/ \E create_ok \in [1..2 -> BOOLEAN] : Bridge(create_ok) /\ UNCHANGED <<hqVars, auxVars>>
    \/ \E quick, slow \in WarmupOutcomes :
           LoadNext(quick, slow) /\ UNCHANGED <<hqVars, auxVars>>
    \/ \E outcome \in AttemptOutcomes : Attempt(outcome) /\ UNCHANGED <<hqVars, auxVars>>
    \/ /\ shut.number < MaxRaceShutdowns
       /\ ShutdownBegin
       /\ UNCHANGED <<hqVars, auxVars>>
    \/ \E stop_ok \in BOOLEAN : ShutdownStep(stop_ok) /\ UNCHANGED <<hqVars, auxVars>>
    \/ ShutdownClear /\ UNCHANGED <<hqVars, auxVars>>

SpecRace == Init /\ [][NextRace]_vars

\* SpecBridge: the calls of create_tools_from_names are made by a plain
\* thread or, once the host has started an event loop in the thread, by a
\* callback of that loop.  A thread that can take a step takes it, and so
\* does the loop.
LoopSteps ==
    \E create_ok \in [1..2 -> BOOLEAN] : LoopStep(create_ok) /\ UNCHANGED <<hqVars, auxVars>>
CallbackReturns == CallbackReturn /\ UNCHANGED <<hqVars, auxVars>>
BridgeSteps ==
    \E create_ok \in [1..2 -> BOOLEAN] : Bridge(create_ok) /\ UNCHANGED <<hqVars, auxVars>>
LoadNextSteps ==
    \E quick, slow \in WarmupOutcomes : LoadNext(quick, slow) /\ UNCHANGED <<hqVars, auxVars>>
AttemptSteps ==
    \E outcome \in AttemptOutcomes : Attempt(outcome) /\ UNCHANGED <<hqVars, auxVars>>

NextBridge ==
    \/ LoopStart /\ UNCHANGED <<hqVars, auxVars>>
    \/ LoopSteps
    \/ CallbackReturns
    \/ \E loader \in LoaderContexts, tool_names \in ToolNameLists,
          agent_type \in AgentTypes, mem0_ok \in BOOLEAN :
           /\ prov.instance < MaxBridgeCalls
           /\ ProvisionBegin(loader, tool_names, agent_type, mem0_ok)
           /\ UNCHANGED <<hqVars, auxVars>>
    \/ BridgeSteps
    \/ LoadNextSteps
    \/ AttemptSteps

SpecBridge ==
    /\ Init
    /\ [][NextBridge]_vars
    /\ WF_vars(LoopSteps)
    /\ WF_vars(CallbackReturns)
    /\ WF_vars(BridgeSteps)
    /\ WF_vars(LoadNextSteps)
    /\ WF_vars(AttemptSteps)

\* ------------------------------------------------------------ properties
\* The number of tools of the list that have the name.
RECURSIVE CountName(_, _)
CountName(tools, name) ==
    IF tools = <<>> THEN 0
    ELSE (IF Head(tools).name = name THEN 1 ELSE 0) + CountName(Tail(tools), name)

\* C12: the list one call of create_tools_from_names returns holds no two
\* capabilities with the same name.
C12_UniqueNames ==
    prov.pc = "returned" =>
        \A m, n \in 1..Len(prov.tools) :
            m # n => prov.tools[m].name # prov.tools[n].name

\* C13: on a loader with tenant and user context, a call with the names
\* mem0, mem0, memento (the memory client being available) returns, and
\* returns exactly one mem0 and exactly one memento.
C13_RepeatedBuiltinNames ==
    ( /\ prov.pc \in {"returned", "raised"}
      /\ ~Falsy(prov.tenant_id) /\ ~Falsy(prov.user_id)
      /\ prov.tool_names = <<"mem0", "mem0", "memento">>
      /\ prov.error # "mem0" )
    => /\ prov.pc = "returned"
       /\ CountName(prov.tools, "mem0") = 1
       /\ CountName(prov.tools, "memento") = 1

\* C14: a connection whose last attempt failed aborts the load of that tool
\* only: the call of create_tools_from_names does not raise because of it.
C14_PerItemIsolation ==
    ~(prov.pc = "raised" /\ prov.error = "connect")

\* The last tool of the list.
Last(seq) == seq[Len(seq)]

\* C15: _load_mcp_tool makes at most two attempts; the second begins only
\* after the first failed and after one sleep of 5; a success ends the
\* retrying and returns the capabilities of the handle just built; after
\* the second failure there is no sleep and the failure is raised.
C15_BoundedRetry ==
    /\ prov.attempts <= 2
    /\ prov.pc = "attempt" =>
          /\ prov.attempt = prov.attempts + 1
          /\ prov.attempt <= 2
          /\ prov.failures = prov.attempts
          /\ prov.slept = 5 * prov.failures
    /\ (prov.pc = "mcp" /\ prov.attempts >= 1) =>
          /\ prov.failures = prov.attempts - 1
          /\ prov.slept = 5 * prov.failures
          /\ prov.tools # <<>>
          /\ Last(prov.tools).handle = Len(handles)
    /\ (prov.pc = "raised" /\ prov.error = "connect") =>
          /\ prov.attempts = 2
          /\ prov.failures = 2
          /\ prov.slept = 5

C15_Witness ==
    /\ prov.pc = "mcp"
    /\ prov.attempts = 2
    /\ prov.failures = 1
    /\ prov.slept = 5

\* The handle is in the registry.
InRegistry(h) == \E n \in 1..Len(adapters) : adapters[n] = h

\* C16: the registry holds the handles of the connections that were opened
\* successfully (their capabilities were returned) and not yet shut down,
\* and no other handle: an attempt that failed left nothing in it.
C16_RegistryExact ==
    \A h \in 1..Len(handles) :
        /\ InRegistry(h) => handles[h].returned
        /\ (handles[h].returned /\ handles[h].stops = 0) => InRegistry(h)

\* C17: a shutdown_all_adapters in which no stop() failed has closed every
\* handle of the registry once, in registration order, whichever loader
\* instance registered it, and leaves the registry empty.
C17_ShutdownClosesAll ==
    [][(shut.pc = "clear" /\ shut'.pc = "returned") =>
          /\ shut.error = "none"
          /\ shut.closed = adapters
          /\ shut.start = adapters
          /\ \A n \in 1..Len(adapters) : handles[adapters[n]].stops >= 1
          /\ adapters' = <<>>]_vars

C17_Witness ==
    /\ shut.pc = "returned"
    /\ adapters = <<>>
    /\ \E m, n \in 1..Len(shut.closed) :
          /\ m < n
          /\ handles[shut.closed[m]].instance < handles[shut.closed[n]].instance

\* C18: a stop() that raises ends shutdown_all_adapters at once: the call
\* raises, the handles before the failing one were closed, the failing one
\* and the later ones were not, and the registry is not cleared.
C18_CloseFailurePropagates ==
    shut.error = "stop" =>
        /\ shut.pc = "raised"
        /\ shut.i < Len(shut.start)
        /\ shut.closed = SubSeq(shut.start, 1, shut.i)
        /\ \A n \in 1..Len(shut.closed) : handles[shut.closed[n]].stops >= 1
        /\ Len(adapters) >= Len(shut.start)
        /\ SubSeq(adapters, 1, Len(shut.start)) = shut.start

C18_Witness ==
    /\ shut.pc = "raised"
    /\ shut.i >= 1
    /\ Len(shut.start) >= shut.i + 2
    /\ handles[shut.start[shut.i + 2]].stops = 0

\* The handle was removed from the registry and never closed.
Lost(h) == ~InRegistry(h) /\ handles[h].stops = 0

\* C19: a handle is removed from the registry without having been closed
\* only when it was registered between the end of the loop of
\* shutdown_all_adapters and its clear(); such an interleaving exists.
C19_LostOnlyByRace ==
    \A h \in 1..Len(handles) : Lost(h) => handles[h].during = "clear"

C19_Witness ==
    \E h \in 1..Len(handles) :
        /\ Lost(h)
        /\ handles[h].during = "clear"
        /\ shut.pc = "returned"

\* C20: a call that reaches the bridge of _load_a2a_tools gets past it:
\* the coroutine runs to its end and _load_a2a_tools returns, whether or
\* not an event loop is running in the calling thread.
C20_BridgeCompletes ==
    (prov.pc = "bridge") ~> (prov.pc \notin {"bridge", "fut_result"})

\* C21: a creation that raises inside the bridged coroutine reaches the
\* caller of the bridge: the call of create_tools_from_names raises.
C21_BridgeExceptionSurfaces ==
    prov.create_failed => (prov.pc = "raised" /\ prov.error = "a2a")

\* C22: a name without server configuration (ghost) and a server whose
\* parameters cannot be built (nocmd) are skipped: nothing is raised, no
\* attempt is made, nothing is slept, the registry and the tools stay as
\* they are, and the loop goes on with the next name.
C22_SkipUnresolvable ==
    [][( /\ prov.pc = "mcp"
         /\ prov.i <= Len(prov.tool_names)
         /\ StripLower(prov.tool_names[prov.i]) \in {"ghost", "nocmd"}
         /\ prov' # prov )
       => /\ prov'.pc = "mcp"
          /\ prov'.i = prov.i + 1
          /\ prov'.error = "none"
          /\ prov'.tools = prov.tools
          /\ prov'.attempts = prov.attempts
          /\ prov'.slept = prov.slept
          /\ adapters' = adapters
          /\ handles' = handles]_vars

C22_Witness ==
    /\ prov.tool_names = <<"nocmd", "srv_b">>
    /\ prov.i = 2
    /\ prov.pc = "attempt"
    /\ prov.key = "srv_b"
    /\ adapters = <<>>

\* =========================================================================
\* Transport Resolver (SafeToolLoader._build_server_parameters) on its own.
\* =========================================================================
\* The descriptors the resolver is applied to.
DescriptorTransports ==
    {None, "", "stdio", "websocket", "SSE", "http", "streamable-http", "grpc"}
DescriptorTypes == {None, "sse", "websocket"}
DescriptorCommands == {None, "npx"}
DescriptorUrls ==
    {NoUrl, Url("ws://", "x"), Url("wss://", "x"), Url("http://", "x"),
     Url("https://", "x"), Url("ftp://", "x")}
DescriptorHeaders == {NoHeaders, Headers({<<"k", "v">>})}
\* A configured timeout.
ConfiguredTimeout == 10
DescriptorTimeouts == {NoTimeout, ConfiguredTimeout}

Descriptors ==
    { Descriptor(transport, type, command, <<>>, url, headers, timeout) :
        transport \in DescriptorTransports, type \in DescriptorTypes,
        command \in DescriptorCommands, url \in DescriptorUrls,
        headers \in DescriptorHeaders, timeout \in DescriptorTimeouts }

\* The state before a call of _build_server_parameters on a descriptor.
InitResolve ==
    /\ events = <<>>
    /\ notifications = <<>>
    /\ responses = 0
    /\ started = 0
    /\ call = [c \in Workers |-> IdleCall]
    /\ observed = <<>>
    /\ adapters = <<>>
    /\ handles = <<>>
    /\ prov = IdleProvision
    /\ shut = IdleShutdown
    /\ loop = NoLoop
    /\ listener = IdleListener
    /\ bus = IdleBus
    /\ vecs = IdleVecs
    /\ eval \in { [fn |-> "resolve", input |-> cfg, done |-> FALSE,
                   transport |-> None, output |-> NoParameters] :
                  cfg \in Descriptors }

\* _load_mcp_tool lines 244 and 264: the resolver applied to the descriptor.
Resolve ==
    /\ eval.fn = "resolve"
    /\ ~eval.done
    /\ eval' = [eval EXCEPT
                  !.done = TRUE,
                  !.transport = ResolveTransport(eval.input),
                  !.output = BuildServerParameters(eval.input,
                                                   TimeoutOf(eval.input))]
    /\ UNCHANGED <<hqVars, loaderVars, listener, bus, vecs>>

NextResolve == Resolve

SpecResolve == InitResolve /\ [][NextResolve]_vars

Resolved == eval.fn = "resolve" /\ eval.done

\* C23: the transport is the explicit transport field when it is set, else
\* the type field when it is set, else websocket for a ws or wss url and
\* streamable-http for an http or https url, else stdio.
C23_TransportPrecedence ==
    Resolved =>
        LET cfg == eval.input
            unset == Falsy(cfg.transport) /\ Falsy(cfg.type)
        IN  /\ ~Falsy(cfg.transport) => eval.transport = Lower(cfg.transport)
            /\ (Falsy(cfg.transport) /\ ~Falsy(cfg.type)) =>
                   eval.transport = Lower(cfg.type)
            /\ (unset /\ cfg.url.scheme \in {"ws://", "wss://"}) =>
                   eval.transport = "websocket"
            /\ (unset /\ cfg.url.scheme \in {"http://", "https://"}) =>
                   eval.transport = "streamable-http"
            /\ (unset /\ cfg.url.scheme \notin
                            {"ws://", "wss://", "http://", "https://"}) =>
                   eval.transport = "stdio"

C23_Witness ==
    /\ Resolved
    /\ eval.input.transport = "SSE"
    /\ eval.input.type = "websocket"
    /\ eval.input.url.scheme = "wss://"
    /\ eval.transport = "sse"
    /\ eval.output.transport = "sse"

\* C24: the resolver returns None when the field its transport needs is
\* missing (stdio: command; websocket, sse, streamable-http: url), and
\* else the parameters of that transport: the command or the url, the
\* headers (empty when not configured) and the timeout (40 when not
\* configured).
C24_ResolverTotal ==
    Resolved =>
        LET cfg == eval.input
            out == eval.output
            timeout == IF cfg.timeout = NoTimeout THEN 40 ELSE cfg.timeout
            headers == IF cfg.headers.absent THEN {} ELSE cfg.headers.pairs
            by_url == eval.transport \in
                          {"websocket", "sse", "streamable-http", "http"}
            shape == IF eval.transport = "http" THEN "streamable-http"
                     ELSE eval.transport
        IN  /\ (eval.transport = "stdio" /\ Falsy(cfg.command)) => out.is_none
            /\ (by_url /\ cfg.url = NoUrl) => out.is_none
            /\ (eval.transport = "stdio" /\ ~Falsy(cfg.command)) =>
                   out = Parameters("stdio", cfg.command, {}, timeout)
            /\ (by_url /\ cfg.url # NoUrl) =>
                   out = Parameters(shape, cfg.url.scheme \o cfg.url.rest,
                                    headers, timeout)

C24_Witness ==
    /\ Resolved
    /\ eval.transport = "stdio"
    /\ eval.input.command = None
    /\ eval.input.url.scheme = "ftp://"
    /\ eval.output.is_none

\* =========================================================================
\* Remote-agent, built-in and warmup claims (SpecTools).
\* =========================================================================
\* The name of the loop is a built-in name or carries the a2a: prefix.
PassedOver(name) ==
    StripLower(name) \in LocalTools \/ StartsWithA2A(StripLower(name))

\* The call of create_tools_from_names got past the built-in loaders.
PastBuiltins ==
    \/ prov.pc \in {"bridge", "fut_result", "mcp", "attempt", "returned"}
    \/ prov.pc = "raised" /\ prov.error \in {"connect", "warmup", "a2a"}

\* What holds in every state of a call for C25.
C25_Inv ==
    /\ \A t \in 1..Len(prov.tools) :
           prov.tools[t].name \in {"A2A:x", "A2A:y", "A2A:z"} =>
               /\ prov.agent_type \in {"a2a", "A2A"}
               /\ \E n \in 1..Len(prov.tool_names) :
                      "A2A:" \o A2ACandidate(prov.tool_names[n])
                          = prov.tools[t].name
                      /\ StartsWithA2A(Lower(prov.tool_names[n]))
    /\ prov.pc = "attempt" =>
           prov.key \notin LocalTools /\ ~StartsWithA2A(prov.key)
    /\ \A h \in 1..Len(handles) :
           handles[h].key \notin LocalTools /\ ~StartsWithA2A(handles[h].key)
    /\ PastBuiltins =>
           /\ CountName(prov.tools, "mem0")
                  = (IF Falsy(prov.user_id) THEN 0 ELSE 1)
           /\ CountName(prov.tools, "human_asked")
                  = (IF Falsy(prov.tenant_id) \/ Falsy(prov.agent_name)
                     THEN 0 ELSE 1)
           /\ CountName(prov.tools, "dmn_rule")
                  = (IF Falsy(prov.tenant_id) \/ Falsy(prov.user_id)
                     THEN 0 ELSE 1)

ContextGap ==
    Falsy(prov.tenant_id) \/ Falsy(prov.user_id) \/ Falsy(prov.agent_name)

\* C26: on a loader that lacks the context of some built-in, the call of
\* create_tools_from_names is not ended by a built-in loader (the memory
\* client of mem0 failing apart): the built-ins without context add
\* nothing and the built-ins whose context is there are in the result.
C26_SkippableGaps ==
    (prov.pc # "idle" /\ ContextGap /\ prov.error # "mem0") =>
        /\ prov.error \notin {"memento", "human_asked", "dmn_rule"}
        /\ CountName(prov.tools, "human_asked")
               = (IF Falsy(prov.tenant_id) \/ Falsy(prov.agent_name)
                  THEN 0 ELSE 1)

\* C27: a warmup that failed (no package argument after -y, or both tries
\* of the fetch failing) does not end the call of create_tools_from_names:
\* the connection attempt of that server follows.
C27_WarmupBestEffort ==
    prov.warmup \in {"raised", "failed"} =>
        ~(prov.pc = "raised" /\ prov.error = "warmup")

\* =========================================================================
\* Event listener (CrewAIEventLogger.on_event) on its own.
\* =========================================================================
MaxEvents == 2

SupportedTypes ==
    {"task_started", "task_completed", "tool_usage_started",
     "tool_usage_finished"}

\* The events the bus hands to on_event.  The output of a completed task
\* parses to a plain result, to a mapping whose list_of_plans_per_task is
\* a list of mappings (plans), or to one whose list_of_plans_per_task
\* holds something else (bad_plans).
OrchestrationEvents ==
    { OrchestrationEvent(type, class, task_id, output) :
        type \in {None, "task_started", "task_completed",
                  "tool_usage_finished", "crew_started"},
        class \in {"TaskStartedEvent", "TaskCompletedEvent",
                   "ToolUsageStartedEvent", "CrewKickoffStartedEvent"},
        task_id \in {None, "t1"},
        output \in {"plain", "plans", "bad_plans"} }

\* _extract_event_type: the type attribute when it is a string, else by
\* the name of the class, else unknown.
ExtractEventType(event) ==
    IF event.type # None THEN event.type
    ELSE CASE event.class = "TaskStartedEvent" -> "task_started"
           [] event.class = "TaskCompletedEvent" -> "task_completed"
           [] event.class = "ToolUsageStartedEvent" -> "tool_usage_started"
           [] event.class = "ToolUsageFinishedEvent" -> "tool_usage_finished"
           [] OTHER -> "unknown"

\* _extract_job_id: the id of the task, else unknown.
ExtractJobId(event) ==
    IF event.task_id # None THEN event.task_id ELSE "unknown"

\* _extract_data: the kind of data of the event, or raised: a completed
\* task whose output has list_of_plans_per_task is formatted by
\* _format_plans_md, which calls item.get on every item (lines 234-236).
ExtractData(event, event_type) ==
    CASE event_type = "task_started" -> "agent"
      [] event_type = "task_completed" /\ event.output = "plans" -> "plans"
      [] event_type = "task_completed" /\ event.output = "bad_plans" -> "raised"
      [] event_type = "task_completed" -> "result"
      [] OTHER -> "tool"

\* Lines 159-165: a plan output, once formatted, sets the context variable
\* crew_type to action, before line 82 reads it.
CrewTypeAfter(crew_type, event_type, event) ==
    IF event_type = "task_completed" /\ event.output = "plans"
    THEN "action" ELSE crew_type

\* Lines 67-69 with the failure logged and not raised (not the program).
InitializeFailureSkipped(me) == [me EXCEPT !.pc = "returned"]

\* Lines 67-69: initialize_db raised: logged and raised again.
InitializeFailed(me) == [me EXCEPT !.pc = "raised", !.error = "init"]

\* on_event(event, source): one call, whole.
OnEvent(event, init_ok, save_ok) ==
    LET event_type == ExtractEventType(event)
        data == ExtractData(event, event_type)
        crew_type == CrewTypeAfter(listener.crew_type, event_type, event)
        me == [listener EXCEPT
                 !.number = listener.number + 1, !.event = event,
                 !.init_ok = init_ok, !.save_ok = save_ok,
                 !.event_type = None, !.inits = 1, !.saves = 0,
                 !.table = Len(events), !.pc = "returned",
                 !.error = "none"]
    IN  /\ listener.number < MaxEvents
        /\ IF ~init_ok
           THEN /\ listener' = InitializeFailed(me)
                /\ UNCHANGED events
           ELSE IF event_type \notin SupportedTypes
           THEN /\ listener' = [me EXCEPT !.event_type = event_type]
                /\ UNCHANGED events
           ELSE IF data = "raised"
           THEN /\ listener' = [me EXCEPT !.event_type = event_type,
                                          !.crew_type = crew_type,
                                          !.pc = "raised",
                                          !.error = "extract"]
                /\ UNCHANGED events
           ELSE IF ~save_ok
           THEN /\ listener' = [me EXCEPT !.event_type = event_type,
                                          !.crew_type = crew_type,
                                          !.saves = 1, !.pc = "raised",
                                          !.error = "save"]
                /\ UNCHANGED events
           ELSE /\ listener' = [me EXCEPT !.event_type = event_type,
                                          !.crew_type = crew_type,
                                          !.saves = 1]
                /\ events' = Append(events,
                                    [job_id |-> ExtractJobId(event),
                                     event_type |-> event_type,
                                     crew_type |-> crew_type,
                                     data |-> data, status |-> None])
        /\ UNCHANGED <<notifications, responses, started, call, observed,
                       loaderVars, eval, bus, vecs>>

NextListener ==
    \E event \in OrchestrationEvents, init_ok, save_ok \in BOOLEAN :
        OnEvent(event, init_ok, save_ok)

SpecListener == Init /\ [][NextListener]_vars

\* The event is of a supported type: by its type attribute, else by its
\* class.
Supported(event) ==
    IF event.type # None THEN event.type \in SupportedTypes
    ELSE event.class \in {"TaskStartedEvent", "TaskCompletedEvent",
                          "ToolUsageStartedEvent", "ToolUsageFinishedEvent"}

\* The data of the event can be extracted.
Extractable(event) ==
    ~(ExtractEventType(event) = "task_completed" /\ event.output = "bad_plans")

\* C28 as stated: a call whose initialization fails raises and saves
\* nothing; a call whose initialization succeeds saves exactly one event
\* when the event is of a supported type and none otherwise.
C28_ExactlyOneSave ==
    listener.pc # "idle" =>
        /\ listener.inits = 1
        /\ ~listener.init_ok =>
               /\ listener.pc = "raised" /\ listener.saves = 0
               /\ Len(events) = listener.table
        /\ (listener.init_ok /\ Supported(listener.event)) =>
               Len(events) = listener.table + 1
        /\ (listener.init_ok /\ ~Supported(listener.event)) =>
               Len(events) = listener.table

\* C28 (amended): a call whose initialization fails raises with no save
\* and no second initialization; a call whose initialization succeeds
\* makes no save for an unsupported type and for a supported type whose
\* data cannot be extracted (it raises), and else makes one save, which
\* adds exactly one event of that type when it succeeds and raises when
\* it fails.
C28_InitFailureTerminal ==
    listener.pc # "idle" =>
        LET event == listener.event
            ok == listener.init_ok /\ Supported(event) /\ Extractable(event)
        IN  /\ listener.inits = 1
            /\ listener.saves <= 1
            /\ ~listener.init_ok =>
                   /\ listener.pc = "raised" /\ listener.error = "init"
                   /\ listener.saves = 0
                   /\ Len(events) = listener.table
            /\ (listener.init_ok /\ ~Supported(event)) =>
                   /\ listener.pc = "returned" /\ listener.saves = 0
                   /\ Len(events) = listener.table
            /\ (listener.init_ok /\ Supported(event) /\ ~Extractable(event)) =>
                   /\ listener.pc = "raised" /\ listener.saves = 0
                   /\ Len(events) = listener.table
            /\ (ok /\ listener.save_ok) =>
                   /\ listener.pc = "returned" /\ listener.saves = 1
                   /\ Len(events) = listener.table + 1
                   /\ Last(events).event_type \in SupportedTypes
            /\ (ok /\ ~listener.save_ok) =>
                   /\ listener.pc = "raised" /\ listener.saves = 1
                   /\ Len(events) = listener.table

C28_Witness ==
    /\ listener.number = 2
    /\ ~listener.init_ok
    /\ Supported(listener.event)
    /\ listener.pc = "raised"
    /\ listener.error = "init"
    /\ listener.table = 1
    /\ Len(events) = 1

\* =========================================================================
\* Relevance filter (Mem0Tool._run) on its own.
\* =========================================================================
MaxHits == 6

\* THRESHOLD = 0.5 and the scores, in hundredths.
Threshold == 50
MinResults == 5
HitScores == {20, 49, 50, 80}

\* results["results"] of the search: hits in the order of the backend; id
\* is the place of the hit in that list.
HitLists ==
    UNION { { [i \in 1..n |-> [id |-> i, score |-> scores[i]]] :
              scores \in [1..n -> HitScores] } : n \in 0..MaxHits }

\* sorted(hits, key=score, reverse=True): stable, by insertion.
RECURSIVE InsertDescending(_, _)
InsertDescending(sorted, hit) ==
    IF sorted = <<>> THEN <<hit>>
    ELSE IF Head(sorted).score >= hit.score
         THEN <<Head(sorted)>> \o InsertDescending(Tail(sorted), hit)
         ELSE <<hit>> \o sorted

RECURSIVE SortedDescending(_)
SortedDescending(hits) ==
    IF hits = <<>> THEN <<>>
    ELSE InsertDescending(SortedDescending(SubSeq(hits, 1, Len(hits) - 1)),
                          hits[Len(hits)])

\* [h for h in hits_sorted if h.get("score", 0) >= THRESHOLD]
AboveThreshold(hit) == hit.score >= Threshold

\* hits_sorted[:MIN_RESULTS]
FirstHits(hits, n) ==
    SubSeq(hits, 1, IF Len(hits) < n THEN Len(hits) ELSE n)

\* The filter without the floor (not the program).
NeverTooFew(filtered_hits) == FALSE

\* len(filtered_hits) < MIN_RESULTS
TooFew(filtered_hits) == Len(filtered_hits) < MinResults

\* Lines 203-207 of _run.
RelevanceFilter(hits) ==
    LET hits_sorted == SortedDescending(hits)
        filtered_hits == SelectSeq(hits_sorted, AboveThreshold)
    IN  IF TooFew(filtered_hits) THEN FirstHits(hits_sorted, MinResults)
        ELSE filtered_hits

\* The state before _run(query) with a query and a user id, the search
\* returning hits.
InitFilter ==
    /\ events = <<>>
    /\ notifications = <<>>
    /\ responses = 0
    /\ started = 0
    /\ call = [c \in Workers |-> IdleCall]
    /\ observed = <<>>
    /\ adapters = <<>>
    /\ handles = <<>>
    /\ prov = IdleProvision
    /\ shut = IdleShutdown
    /\ loop = NoLoop
    /\ listener = IdleListener
    /\ bus = IdleBus
    /\ vecs = IdleVecs
    /\ eval \in { [fn |-> "search", hits |-> hits, done |-> FALSE,
                   output |-> <<>>, text |-> None] : hits \in HitLists }

\* Mem0Tool._run: the hits passed on, and the text returned: the text for
\* no knowledge when no hit is left, else the formatted hits.
Mem0Run ==
    /\ eval.fn = "search"
    /\ ~eval.done
    /\ LET output == RelevanceFilter(eval.hits)
       IN  eval' = [eval EXCEPT
                      !.done = TRUE,
                      !.output = output,
                      !.text = IF output = <<>> THEN "no_knowledge"
                               ELSE "formatted"]
    /\ UNCHANGED <<hqVars, loaderVars, listener, bus, vecs>>

NextFilter == Mem0Run

SpecFilter == InitFilter /\ [][NextFilter]_vars

\* The places, in the list of the search, of the hits that reach 0.5.
Passing(hits) == {i \in 1..Len(hits) : hits[i].score >= 50}

\* C29: the hits passed on are hits of the search, each once, in
\* descending score order; when at least 5 hits reach 0.5 they are
\* exactly the hits that reach 0.5; otherwise they are min(5, n) hits and
\* no hit left out scores higher than one passed on; none is passed on
\* only when the search returned none.
C29_RelevanceFloor ==
    (eval.fn = "search" /\ eval.done) =>
        LET hits == eval.hits
            out == eval.output
            n == Len(hits)
            ids == {out[i].id : i \in 1..Len(out)}
        IN  /\ \A i \in 1..Len(out) :
                   out[i].id \in 1..n /\ hits[out[i].id] = out[i]
            /\ Cardinality(ids) = Len(out)
            /\ \A i, j \in 1..Len(out) :
                   i < j => out[i].score >= out[j].score
            /\ Cardinality(Passing(hits)) >= 5 => ids = Passing(hits)
            /\ Cardinality(Passing(hits)) < 5 =>
                   /\ Len(out) = (IF n < 5 THEN n ELSE 5)
                   /\ \A k \in (1..n) \ ids : \A i \in 1..Len(out) :
                          out[i].score >= hits[k].score
            /\ (out = <<>>) <=> (n = 0)
            /\ (eval.text = "no_knowledge") <=> (n = 0)

C29_Witness ==
    /\ eval.fn = "search"
    /\ eval.done
    /\ Len(eval.hits) = 6
    /\ Cardinality(Passing(eval.hits)) = 4
    /\ Len(eval.output) = 5
    /\ eval.output[5].score = 49
    /\ eval.output[4].score = 50

\* =========================================================================
\* Sequential calls of ask() where the event log never fails.
\* =========================================================================
\* SpecOk: one worker makes MaxCalls calls one after the other, on a tool
\* with a task id; every history fetch, every append of a human_asked
\* event and every response lookup succeeds (a notification may fail).
NextOk ==
    \/ \E q \in Questions, task_id \in TaskIds, delay \in EntryDelays :
           /\ started < MaxCalls
           /\ Ask(1, q, task_id, TRUE, delay)
           /\ UNCHANGED <<observed, loaderVars, auxVars>>
    \/ SaveEvent(1, TRUE) /\ UNCHANGED <<observed, loaderVars, auxVars>>
    \/ \E user_ids_csv \in UserIdsCsv, ok \in BOOLEAN, delay \in EntryDelays :
           /\ SaveNotification(1, user_ids_csv, ok, delay)
           /\ UNCHANGED <<observed, loaderVars, auxVars>>
    \/ PollTimeout(1) /\ UNCHANGED <<observed, loaderVars, auxVars>>
    \/ \E took \in SlowLookups :
           PollLookup(1, TRUE, took) /\ UNCHANGED <<observed, loaderVars, auxVars>>
    \/ \E i \in 1..(MaxCalls + MaxResponses), data \in ResponseData :
           HumanRespond(i, data) /\ UNCHANGED <<observed, loaderVars, auxVars>>

SpecOk == Init /\ [][NextOk]_vars

\* The places of the human_asked events with the signature in the log.
AskedWith(signature) ==
    {i \in 1..Len(events) : IsAsked(events[i], signature)}

\* C30: a call that goes on to mint a job id, or has appended its
\* human_asked event, fetched a history without a human_asked event of its
\* signature; and the log holds at most one human_asked event for each
\* signature.
C30_SequentialAtMostOne ==
    /\ (call[1].pc = "save_event" \/ call[1].appended >= 1) =>
           /\ call[1].scan = "new"
           /\ \A i \in 1..call[1].hist :
                  ~IsAsked(events[i], call[1].signature)
    /\ call[1].appended <= 1
    /\ \A signature \in Signatures : Cardinality(AskedWith(signature)) <= 1

C30_Witness ==
    /\ started = 3
    /\ call[1].pc = "returned"
    /\ call[1].scan = "join"
    /\ call[1].outcome = "timeout"
    /\ call[1].appended = 0
    /\ call[1].hist >= 2
    /\ Cardinality(AskedWith(call[1].signature)) = 1
    /\ \E signature \in Signatures :
           signature # call[1].signature /\ AskedWith(signature) # {}

\* =========================================================================
\* The dedup scan, the poll loop and the signature, once more.
\* =========================================================================
\* C31: when the history a call fetched holds human_asked events with the
\* call's signature and a job id, the scan settles on the job of the newest
\* of them: with a human_response event of that job in the history the
\* call returns at once the answer of the newest such response, and with
\* none it waits on that job; older matching questions and their responses
\* play no part.
C31_NewestMatchWins ==
    \A c \in Workers : call[c].pc # "idle" =>
        \A i \in 1..call[c].hist : NewestAsked(c, i) =>
            LET job == events[i].job_id
                answered == \E k \in 1..call[c].hist :
                                IsResponseTo(events[k], job)
            IN  /\ call[c].scan_job = job
                /\ answered =>
                       /\ call[c].scan = "reuse"
                       /\ Immediate(c)
                       /\ \A k \in 1..call[c].hist :
                              NewestResponse(c, job, k) =>
                                  call[c].result = AnswerText(events[k].data)
                /\ ~answered =>
                       /\ call[c].scan = "join"
                       /\ (call[c].pc = "poll" /\ call[c].joined) =>
                              call[c].job_id = job
                       /\ call[c].polled # {} => job \in call[c].polled

\* A call waits on the newest of two questions with its signature, the
\* older of which has a response in the history.
C31_Witness ==
    \E i, j, k \in 1..call[1].hist :
        /\ NewestAsked(1, i)
        /\ j < i
        /\ IsAsked(events[j], call[1].signature)
        /\ IsResponseTo(events[k], events[j].job_id)
        /\ call[1].scan = "join"
        /\ call[1].pc = "poll"
        /\ call[1].job_id = events[i].job_id

\* SpecClock: one worker makes MaxPollCalls calls one after the other; a
\* lookup takes no time or FastLookup seconds and returns a response,
\* nothing or an error; every lookup of the current poll loop is counted
\* in observed, the last one with its outcome.  The thread of the call
\* goes on while it can.
NoTime == 0
ClockLookups == {NoTime, FastLookup}

LookupOutcome(job_id, lookup_ok) ==
    IF ~lookup_ok THEN "error"
    ELSE IF FetchHumanResponse(events, job_id) # 0 THEN "found"
    ELSE "empty"

Counted(seen, what) == Append([i \in 1..Len(seen) |-> "lookup"], what)

ClockLookupSteps ==
    \E lookup_ok \in BOOLEAN, took \in ClockLookups :
        /\ PollLookup(1, lookup_ok, took)
        /\ observed' = Counted(observed,
                               LookupOutcome(call[1].job_id, lookup_ok))
        /\ UNCHANGED <<loaderVars, auxVars>>

ClockTimeoutSteps ==
    PollTimeout(1) /\ UNCHANGED <<observed, loaderVars, auxVars>>

NextClock ==
    \/ \E q \in Questions, task_id \in TaskIds, fetch_ok \in BOOLEAN,
          delay \in EntryDelays :
           /\ started < MaxPollCalls
           /\ Ask(1, q, task_id, fetch_ok, delay)
           /\ observed' = <<>>
           /\ UNCHANGED <<loaderVars, auxVars>>
    \/ \E ok \in BOOLEAN :
           SaveEvent(1, ok) /\ UNCHANGED <<observed, loaderVars, auxVars>>
    \/ \E user_ids_csv \in UserIdsCsv, ok \in BOOLEAN, delay \in EntryDelays :
           /\ SaveNotification(1, user_ids_csv, ok, delay)
           /\ observed' = <<>>
           /\ UNCHANGED <<loaderVars, auxVars>>
    \/ ClockTimeoutSteps
    \/ ClockLookupSteps
    \/ \E i \in 1..(MaxPollCalls + MaxResponses), data \in ResponseData :
           HumanRespond(i, data) /\ UNCHANGED <<observed, loaderVars, auxVars>>

SpecClock ==
    /\ Init
    /\ [][NextClock]_vars
    /\ WF_vars(ClockLookupSteps)
    /\ WF_vars(ClockTimeoutSteps)

\* The poll loop of the call has ended with an answer, with the sentinel
\* or with the polling error.
LoopEndedWith(me) ==
    { kind \in {"answer", "sentinel", "error"} :
        \/ kind = "answer" /\ me.pc = "returned" /\ me.outcome = "answer"
        \/ /\ kind = "sentinel" /\ me.pc = "returned"
           /\ me.outcome = "timeout" /\ me.result = RejectionSentinel
        \/ kind = "error" /\ me.pc \in {"raised", "save_event"} /\ me.aborted }

\* C32: every poll loop ends; it ends in exactly one of an answer, the
\* sentinel and the polling error; a lookup is made only while the clock is
\* before the deadline of 180; a lookup after which the loop goes on is
\* followed by the sleep of 5; a lookup that finds a response ends the
\* loop with the answer; one loop makes at most 36 lookups.
C32_PollLoopTerminates ==
    /\ (call[1].pc = "poll") ~> (call[1].pc # "poll")
    /\ [](Len(observed) <= 36)
    /\ [][ /\ (call[1].pc = "poll" /\ call'[1].pc # "poll") =>
                  Cardinality(LoopEndedWith(call'[1])) = 1
           /\ Len(observed') > Len(observed) =>
                  /\ call[1].pc = "poll"
                  /\ call[1].now < 180
                  /\ call'[1].pc = "poll" =>
                         call'[1].now >= Min(call[1].now + 5, 180)
                  /\ Last(observed') = "found" =>
                         LoopEndedWith(call'[1]) = {"answer"} ]_vars

C32_Witness ==
    /\ Len(observed) = 36
    /\ call[1].pc = "returned"
    /\ call[1].outcome = "timeout"
    /\ call[1].result = RejectionSentinel

\* =========================================================================
\* The signature of a call (HumanQueryTool._run, lines 115-124) on its own.
\* =========================================================================
ArgumentNames == {"role", "text", "type", "options"}

\* The orders in which a call names its arguments; options may be left out.
ArgumentOrders ==
    { order \in UNION {[1..n -> ArgumentNames] : n \in 3..4} :
        /\ \A i, j \in 1..Len(order) : i # j => order[i] # order[j]
        /\ \A name \in ArgumentNames \ {"options"} :
               \E i \in 1..Len(order) : order[i] = name }

\* An argument value: a string (s) or the options (o).
StringValue(str) == [s |-> str, o |-> NoOptions]
OptionsValue(options) == [s |-> None, o |-> options]

\* The call _run(name=value, ...) with the arguments in this order.
Supply(order, role, text, type, options) ==
    [names |-> order,
     values |-> [k \in 1..Len(order) |->
                   CASE order[k] = "role" -> StringValue(role)
                     [] order[k] = "text" -> StringValue(text)
                     [] order[k] = "type" -> StringValue(type)
                     [] OTHER -> OptionsValue(options)]]

\* The value bound to a parameter of _run: the argument of that name, else
\* the default of the parameter.
Bind(supplied, name, default) ==
    IF \E k \in 1..Len(supplied.names) : supplied.names[k] = name
    THEN supplied.values[CHOOSE k \in 1..Len(supplied.names) :
                             supplied.names[k] = name]
    ELSE default

\* Lines 115 and 123-124: the signature of the call.
SignatureOf(supplied) ==
    LET role == Bind(supplied, "role", StringValue(None)).s
        text == Bind(supplied, "text", StringValue(None)).s
        type == Bind(supplied, "type", StringValue("text")).s
        options == Bind(supplied, "options", OptionsValue(NoOptions)).o
    IN  MakeSignature(role, text, type, NormalizeOptions(options))

\* The arguments of a call: the order they are named in and their values.
AskArguments ==
    { [order |-> order, role |-> "user", text |-> text, type |-> type,
       options |-> options] :
        order \in ArgumentOrders, text \in {"q1", "q2"},
        type \in {"text", "select"},
        options \in {NoOptions, ListOptions(<<>>),
                     ListOptions(<<"dev", "prod">>)} }

\* The arguments in the order of the parameters.
InOrder(arguments) ==
    arguments.order = <<"role", "text", "type", "options">>

\* The state before the signatures of two calls are made.
InitSign ==
    /\ events = <<>>
    /\ notifications = <<>>
    /\ responses = 0
    /\ started = 0
    /\ call = [c \in Workers |-> IdleCall]
    /\ observed = <<>>
    /\ adapters = <<>>
    /\ handles = <<>>
    /\ prov = IdleProvision
    /\ shut = IdleShutdown
    /\ loop = NoLoop
    /\ listener = IdleListener
    /\ bus = IdleBus
    /\ vecs = IdleVecs
    /\ eval \in { [fn |-> "sign", a |-> a, b |-> b, done |-> FALSE,
                   sig_a |-> NoSignature, sig_b |-> NoSignature] :
                  a \in {x \in AskArguments : InOrder(x)},
                  b \in AskArguments }

\* The options that reach the call, None when they are left out.
GivenOptions(arguments) ==
    IF \E k \in 1..Len(arguments.order) : arguments.order[k] = "options"
    THEN arguments.options ELSE NoOptions

MakeSignatures ==
    /\ eval.fn = "sign"
    /\ ~eval.done
    /\ LET a == eval.a
           b == eval.b
       IN eval' = [eval EXCEPT
             !.done = TRUE,
             !.sig_a = SignatureOf(Supply(a.order, a.role, a.text, a.type,
                                          a.options)),
             !.sig_b = SignatureOf(Supply(b.order, b.role, b.text, b.type,
                                          b.options))]
    /\ UNCHANGED <<hqVars, loaderVars, listener, bus, vecs>>

NextSign == MakeSignatures

SpecSign == InitSign /\ [][NextSign]_vars

\* The options are absent or an empty sequence.
NoChoice(options) == options.is_none \/ options.items = <<>>

\* C33: two calls with equal role, text and type, and with equal options
\* or options that are absent or empty in both, get the same signature,
\* in whatever order their arguments are given.
C33_SignatureDeterminism ==
    (eval.fn = "sign" /\ eval.done) =>
        LET a == eval.a
            b == eval.b
        IN  ( /\ a.role = b.role /\ a.text = b.text /\ a.type = b.type
              /\ \/ GivenOptions(a) = GivenOptions(b)
                 \/ NoChoice(GivenOptions(a)) /\ NoChoice(GivenOptions(b)) )
            => eval.sig_a = eval.sig_b

C33_Witness ==
    /\ eval.fn = "sign"
    /\ eval.done
    /\ eval.a.options = NoOptions
    /\ eval.b.options = ListOptions(<<>>)
    /\ eval.b.order = <<"options", "type", "text", "role">>
    /\ eval.a.text = eval.b.text
    /\ eval.a.type = eval.b.type
    /\ eval.sig_a = eval.sig_b
    /\ eval.sig_a.options = <<>>

\* What holds of every call for C34.
C34_Inv ==
    \A c \in Workers :
        /\ call[c].notified <= 1
        /\ call[c].notified = 1 => call[c].appended = 1
        /\ call[c].scan = "reuse" => call[c].notified = 0
        /\ (call[c].pc = "returned" /\ call[c].joined) => call[c].notified = 0

\* C34: a notification is saved only by a call that has just appended its
\* human_asked event, one at a time and at most once in a call; a call
\* that returns a stored answer, or that returns from waiting on an
\* existing job, has saved none.
C34_NotifyFreshOnly ==
    [][ /\ C34_Inv
        /\ C34_Inv'
        /\ notifications' # notifications =>
               /\ Len(notifications') = Len(notifications) + 1
               /\ \E c \in Workers :
                      /\ call[c].pc = "notify"
                      /\ call[c].appended = 1
                      /\ call[c].notified = 0
                      /\ call'[c].notified = 1
                      /\ IsAsked(events[call[c].job_id],
                                 call[c].signature) ]_vars

C34_Witness ==
    /\ started = 3
    /\ call[1].scan = "join"
    /\ call[1].pc = "returned"
    /\ call[1].outcome = "answer"
    /\ call[1].notified = 0
    /\ Len(notifications) = 2

\* The places of the candidates that have an endpoint and whose creation
\* did not fail, and the n-th of them.
Kept == {n \in 1..Len(prov.candidates) :
            prov.candidates[n] \in {"x", "z"} /\ n \notin prov.failed_at}
NthKept(m) == CHOOSE n \in Kept : Cardinality({k \in Kept : k < n}) = m - 1

\* C35: no call of create_tools_from_names is ended by the load of the A2A
\* tools; once that load is over, what it returned are the tools of the
\* candidates that have an endpoint and whose creation did not fail, in
\* the order of the request, and they are in the result after the
\* built-ins.
C35_A2ALoadIsolation ==
    /\ prov.error # "a2a"
    /\ (prov.candidates # <<>> /\ prov.pc \notin {"bridge", "fut_result"}) =>
           /\ Len(prov.loaded) = Cardinality(Kept)
           /\ \A m \in 1..Len(prov.loaded) :
                  prov.loaded[m].name = "A2A:" \o prov.candidates[NthKept(m)]
           /\ Len(prov.tools) >= Len(prov.loaded)
           /\ (prov.pc = "mcp" /\ prov.i = 1) =>
                  SubSeq(prov.tools, Len(prov.tools) - Len(prov.loaded) + 1,
                         Len(prov.tools)) = prov.loaded

C35_Witness ==
    /\ prov.tool_names = <<"a2a:z", "a2a:x">>
    /\ prov.pc = "returned"
    /\ prov.failed_at = {1}
    /\ Len(prov.loaded) = 1
    /\ prov.loaded[1].name = "A2A:x"
    /\ CountName(prov.tools, "A2A:x") = 1

\* =========================================================================
\* The crew type of the saved events (SpecListener).
\* =========================================================================
\* C36: every event is saved with the crew type that was in effect when
\* it arrived; after a task_completed event that carries plans the crew
\* type is action, and it stays action.
C36_PlanningToAction ==
    [][ /\ events' # events =>
               /\ Last(events').crew_type = listener.crew_type
               /\ Last(events').data = "plans" =>
                      listener'.crew_type = "action"
        /\ listener.crew_type = "action" =>
               listener'.crew_type = "action" ]_vars

\* =========================================================================
\* CrewConfigManager: the registration of the listeners on the event bus.
\* =========================================================================
\* The constructions of CrewConfigManager one run makes.
MaxConstructions == 3

\* Where a registration may raise: 0 is nowhere, n is at the n-th event
\* class of the loop (CrewAIEventsBus() or bus.on raising there), after
\* the classes before it got their listener.
RaisePlaces == 0..4

\* bus.on of lines 262-263 for the classes before the one that raises
\* (all four when none does): each gets one more listener.
Registered(listeners, raise_at) ==
    [n \in 1..4 |->
        IF raise_at = 0 \/ n < raise_at THEN listeners[n] + 1
                                        ELSE listeners[n]]

\* CrewConfigManager.__init__: when the class is not yet registered, the
\* loop registers one listener per class, and _registered becomes True
\* only after the whole loop (line 264); an exception leaves it False, is
\* logged and raised again.  When the class is registered nothing happens.
Construct(raise_at) ==
    /\ bus.constructions < MaxConstructions
    /\ bus' = IF bus.registered
              THEN [bus EXCEPT !.constructions = @ + 1, !.raised = FALSE]
              ELSE [bus EXCEPT !.constructions = @ + 1,
                               !.listeners = Registered(@, raise_at),
                               !.registered = (raise_at = 0),
                               !.raised = (raise_at # 0)]
    /\ UNCHANGED <<hqVars, loaderVars, eval, listener, vecs>>

\* One event of the n-th class is emitted on the bus: every listener
\* registered for the class is called, and each is the lambda of line 263,
\* which calls on_event once.
Emit(n) ==
    /\ bus' = [bus EXCEPT !.emitted = ListenedEvents[n],
                          !.calls = bus.listeners[n]]
    /\ UNCHANGED <<hqVars, loaderVars, eval, listener, vecs>>

NextBus ==
    \/ \E raise_at \in RaisePlaces : Construct(raise_at)
    \/ \E n \in 1..4 : Emit(n)

SpecBus == Init /\ [][NextBus]_vars

\* C37: whatever constructions were made, each of the four event classes
\* has at most one listener on the bus, and one emitted event causes at
\* most one on_event call.
C37_RegisteredOnce ==
    /\ \A n \in 1..4 : bus.listeners[n] <= 1
    /\ bus.emitted # None => bus.calls <= 1

\* =========================================================================
\* The patched vecs create_index: check and create under the advisory lock.
\* =========================================================================
\* The collection may or may not have its index when the workers start.
InitIndex ==
    /\ events = <<>>
    /\ notifications = <<>>
    /\ responses = 0
    /\ started = 0
    /\ call = [c \in Workers |-> IdleCall]
    /\ observed = <<>>
    /\ adapters = <<>>
    /\ handles = <<>>
    /\ prov = IdleProvision
    /\ shut = IdleShutdown
    /\ loop = NoLoop
    /\ eval = NoEval
    /\ listener = IdleListener
    /\ bus = IdleBus
    /\ vecs \in {[IdleVecs EXCEPT !.index = present] : present \in BOOLEAN}

\* The calls of create_index one worker makes.
MaxIndexCalls == 2

\* Line 56: whatever the caller passed, kwargs["replace"] is False.
ForcedReplace(replace) == FALSE

\* A lock that is granted whoever holds it.
LockFreeAlways(lock) == TRUE

\* pg_advisory_lock returns when no other session holds the key.
LockFree(lock) == lock = 0

\* An unlock that follows the body only when the body did not raise.
ReleaseOnSuccess(v, w) ==
    IF v.worker[w].outcome \in {"created", "skipped"}
    THEN [v EXCEPT !.lock = 0, !.worker[w].pc = "done"]
    ELSE [v EXCEPT !.worker[w].pc = "done"]

\* The finally of lines 88-89: pg_advisory_unlock, whatever the body did.
Release(v, w) == [v EXCEPT !.lock = 0, !.worker[w].pc = "done"]

\* Worker w calls create_index: line 56 forces replace, lines 59-64 compute
\* the key, lines 66-70 open the session and ask for the lock.
IndexBegin(w, replace) ==
    /\ vecs.worker[w].pc \in {"idle", "done"}
    /\ vecs.worker[w].calls < MaxIndexCalls
    /\ vecs' = [vecs EXCEPT !.worker[w] =
                    [pc |-> "waiting", replace |-> ForcedReplace(replace),
                     acquired |-> FALSE, outcome |-> "none",
                     calls |-> @.calls + 1]]
    /\ UNCHANGED <<hqVars, loaderVars, eval, listener, bus>>

\* Line 70 returns: the lock is held by w.
LockAcquire(w) ==
    /\ vecs.worker[w].pc = "waiting"
    /\ LockFree(vecs.lock)
    /\ vecs' = [vecs EXCEPT !.lock = w,
                            !.worker[w].pc = "locked",
                            !.worker[w].acquired = TRUE]
    /\ UNCHANGED <<hqVars, loaderVars, eval, listener, bus>>

\* Line 68: the wait for the lock is bounded by lock_timeout = 15s; when
\* another session still holds the key, line 70 raises, before the try of
\* line 72: the call ends without the lock and without the check.
LockTimeout(w) ==
    /\ vecs.worker[w].pc = "waiting"
    /\ ~LockFree(vecs.lock)
    /\ vecs' = [vecs EXCEPT !.worker[w].pc = "done",
                            !.worker[w].outcome = "lock_timeout"]
    /\ UNCHANGED <<hqVars, loaderVars, eval, listener, bus>>

\* Lines 73-86 up to the call of the original: the index is looked up
\* afresh; the lookup may raise; a present index is skipped; an absent one
\* leads to Original_create_index.
CheckIndex(w, check_ok) ==
    /\ vecs.worker[w].pc = "locked"
    /\ vecs' =
         IF ~check_ok
         THEN [vecs EXCEPT !.worker[w].pc = "unlocking",
                           !.worker[w].outcome = "check_raised"]
         ELSE IF vecs.index
         THEN [vecs EXCEPT !.worker[w].pc = "unlocking",
                           !.worker[w].outcome = "skipped"]
         ELSE [vecs EXCEPT !.worker[w].pc = "creating",
                           !.invocations = @ + 1]
    /\ UNCHANGED <<hqVars, loaderVars, eval, listener, bus>>

\* Original_create_index returns or raises (line 86).  With replace it
\* drops an index that is there and builds a new one; without, it raises
\* when an index is there; an absent index is built unless the database
\* fails.
CreateIndex(w, create_ok) ==
    /\ vecs.worker[w].pc = "creating"
    /\ vecs' =
         IF vecs.index /\ vecs.worker[w].replace
         THEN [vecs EXCEPT !.drops = @ + 1,
                           !.created = @ + 1,
                           !.worker[w].pc = "unlocking",
                           !.worker[w].outcome = "created"]
         ELSE IF vecs.index \/ ~create_ok
         THEN [vecs EXCEPT !.failures = @ + 1,
                           !.worker[w].pc = "unlocking",
                           !.worker[w].outcome = "create_raised"]
         ELSE [vecs EXCEPT !.index = TRUE,
                           !.created = @ + 1,
                           !.worker[w].pc = "unlocking",
                           !.worker[w].outcome = "created"]
    /\ UNCHANGED <<hqVars, loaderVars, eval, listener, bus>>

\* The finally of lines 88-89, then the call returns or raises.
Unlock(w) ==
    /\ vecs.worker[w].pc = "unlocking"
    /\ vecs' = Release(vecs, w)
    /\ UNCHANGED <<hqVars, loaderVars, eval, listener, bus>>

NextIndex ==
    \/ \E w \in IndexWorkers, replace \in BOOLEAN : IndexBegin(w, replace)
    \/ \E w \in IndexWorkers : LockAcquire(w)
    \/ \E w \in IndexWorkers : LockTimeout(w)
    \/ \E w \in IndexWorkers, check_ok \in BOOLEAN : CheckIndex(w, check_ok)
    \/ \E w \in IndexWorkers, create_ok \in BOOLEAN : CreateIndex(w, create_ok)
    \/ \E w \in IndexWorkers : Unlock(w)

SpecIndex == InitIndex /\ [][NextIndex]_vars

\* Worker w is between the lock and the unlock of its call.
UnderLock(w) == vecs.worker[w].pc \in {"locked", "creating", "unlocking"}

\* C38 as stated: at most one call invokes the original index creation,
\* every other call finds the index and skips, and no index is dropped.
C38_OneInvocation ==
    /\ vecs.invocations <= 1
    /\ \A w \in IndexWorkers :
           vecs.worker[w].pc = "done" =>
               vecs.worker[w].outcome \in {"created", "skipped"}
    /\ vecs.drops = 0

\* What holds in every state of the guarded creation.
C38_Inv ==
    /\ \A w \in IndexWorkers : UnderLock(w) <=> vecs.lock = w
    /\ vecs.created <= 1
    /\ vecs.invocations <= 1 + vecs.failures
    /\ vecs.created = 1 => vecs.index
    /\ \A w \in IndexWorkers :
           /\ ~vecs.worker[w].replace
           /\ vecs.worker[w].outcome \in {"created", "skipped"} => vecs.index
    /\ vecs.drops = 0

\* C38 (amended): the check and the creation are run only by the holder of
\* the advisory lock, so by one call at a time; the original creation is
\* invoked only while the index is absent, at most one invocation builds
\* the index, and an invocation beyond the first follows a creation that
\* raised; a call that ends by skipping or creating leaves the index
\* present; the original never gets replace=True and an index that is
\* there stays.
C38_GuardedCreation ==
    [][ /\ C38_Inv
        /\ C38_Inv'
        /\ vecs'.invocations > vecs.invocations => ~vecs.index
        /\ vecs.index => vecs'.index ]_vars

\* One worker has built the index and still holds the lock while the
\* other, which called concurrently, waits for it.
C38_Witness ==
    /\ vecs.worker[1].pc = "unlocking"
    /\ vecs.worker[1].outcome = "created"
    /\ vecs.worker[2].pc = "waiting"
    /\ vecs.invocations = 1
    /\ vecs.index

\* C39: a call that is not between its lock and its unlock holds no lock:
\* a call that acquired the lock has released it when it ends, however the
\* body ended.
C39_LockReleased ==
    \A w \in IndexWorkers :
        vecs.worker[w].pc \in {"idle", "waiting", "done"} => vecs.lock # w

\* Both workers acquired the lock and ended, one because the creation
\* raised and the other by the check raising, and the lock is free.
C39_Witness ==
    /\ vecs.worker[1].pc = "done"
    /\ vecs.worker[1].acquired
    /\ vecs.worker[1].outcome = "create_raised"
    /\ vecs.worker[2].pc = "done"
    /\ vecs.worker[2].acquired
    /\ vecs.worker[2].outcome = "check_raised"
    /\ vecs.lock = 0

====
